---- MODULE Spec2Model ----
(***************************************************************************)
(* Account reconciliation, session issuance and onboarding of the rental   *)
(* portal: the signIn callback, the post-sign-in event, the jwt callback,  *)
(* the middleware's onboarding gate, POST /api/onboarding and the user     *)
(* administration routes, over the users / accounts / accesses tables.     *)
(***************************************************************************)
EXTENDS Integers, Sequences, FiniteSets, TLC

VARIABLES users, accounts, grants, loginEvents, tokens, flow, procs, last

vars == <<users, accounts, grants, loginEvents, tokens, flow, procs, last>>

(***************************************************************************)
(* Values.  Strings of the program whose characters matter (phone numbers) *)
(* are sequences of one-character strings; opaque strings are atoms.       *)
(***************************************************************************)
NULL == "null"
Undefined == "undefined"
\* an absent (undefined) phone string
NoPhone == <<"undefined">>

Digits == {"1", "2", "3"}
UserIds == {"u1", "u2"}
Emails == {"a@x", "b@x"}
Customers == {10, 20}
\* the time a request reads with new Date()
Times == {"t1"}
Browsers == {"b1"}
\* concurrent OAuth callback requests
MaxProcs == 2
ProcIds == 1..MaxProcs
LATEST_TERMS_VERSION == "v1"

\* JavaScript truthiness of an optional atom string
Truthy(v) == v /= Undefined /\ v /= NULL /\ v /= ""

(***************************************************************************)
(* normalizePhone of lib/auth.ts                                           *)
(***************************************************************************)
RECURSIVE TrimLeft(_)
TrimLeft(s) == IF s /= <<>> /\ Head(s) = " " THEN TrimLeft(Tail(s)) ELSE s

RECURSIVE TrimRight(_)
TrimRight(s) ==
    IF s /= <<>> /\ s[Len(s)] = " " THEN TrimRight(SubSeq(s, 1, Len(s) - 1)) ELSE s

Trim(s) == TrimRight(TrimLeft(s))

AllDigits(s) == Len(s) >= 1 /\ \A i \in 1..Len(s) : s[i] \in Digits

\* a normalization that prefixes "+" whether or not one is there
normalizePhoneAlwaysPrefix(input) ==
    IF input = NoPhone \/ input = <<>> THEN NoPhone
    ELSE LET s == Trim(input) IN
         IF s /= <<>> /\ (Head(s) = "+" \/ AllDigits(s)) THEN <<"+">> \o s
         ELSE NoPhone

normalizePhone(input) ==
    IF input = NoPhone \/ input = <<>> THEN NoPhone
    ELSE LET s == Trim(input) IN
         IF s /= <<>> /\ Head(s) = "+" THEN s
         ELSE IF AllDigits(s) THEN <<"+">> \o s
         ELSE NoPhone

(***************************************************************************)
(* mapAddress of lib/auth.ts: the provider's address claim, field by field *)
(***************************************************************************)
NoAddress == [address_street |-> Undefined, address_postal_code |-> Undefined,
              address_region |-> Undefined]

\* addr.isObject stands for (addr && typeof addr === 'object')
mapAddress(addr) ==
    IF ~addr.isObject THEN NoAddress
    ELSE [address_street |-> addr.street_address,
          address_postal_code |-> addr.postal_code,
          address_region |-> addr.region]

(***************************************************************************)
(* The datastore: users (by id), accounts (rows), accesses (rows).         *)
(***************************************************************************)
NewUser(phone, role, now) ==
    [phone |-> phone, email |-> NULL, role |-> role,
     address_street |-> NULL, address_postal_code |-> NULL, address_region |-> NULL,
     acceptedTerms |-> FALSE, acceptedTermsAt |-> NULL, acceptedTermsVersion |-> NULL,
     lastLoginAt |-> NULL, createdAt |-> now]

NoUserRow == [id |-> NULL, phone |-> NoPhone, email |-> NULL]

\* prisma.user.findUnique({ where: { phone }, select: { id, phone, email } })
FindUserByPhone(us, phone) ==
    IF \E u \in DOMAIN us : us[u].phone = phone
    THEN LET u == CHOOSE x \in DOMAIN us : us[x].phone = phone
         IN [id |-> u, phone |-> us[u].phone, email |-> us[u].email]
    ELSE NoUserRow

\* prisma.user.findUnique({ where: { email }, select: { id, phone, email } })
FindUserByEmail(us, email) ==
    IF \E u \in DOMAIN us : us[u].email = email
    THEN LET u == CHOOSE x \in DOMAIN us : us[x].email = email
         IN [id |-> u, phone |-> us[u].phone, email |-> us[u].email]
    ELSE NoUserRow

\* prisma.account.findUnique({ where: { provider_providerAccountId }, select: { userId } })
FindAccount(accs, provider, paid) ==
    IF \E i \in 1..Len(accs) : accs[i].provider = provider /\ accs[i].providerAccountId = paid
    THEN (accs[CHOOSE i \in 1..Len(accs) :
                   accs[i].provider = provider /\ accs[i].providerAccountId = paid]).userId
    ELSE NULL

(***************************************************************************)
(* callbacks.signIn of lib/auth.ts.  The handler's locals are a record l;  *)
(* SignInBegin is the code before the first await, SignInStep is one       *)
(* datastore call together with the synchronous code that follows it.      *)
(* l.fault names a datastore call that fails for an outside reason (the    *)
(* datastore is unreachable); constraint violations follow from the rows.  *)
(***************************************************************************)
DbCalls == {"findPhone", "findEmail", "update", "findAccount", "create"}

NoUpdates == [email |-> Undefined, phone |-> NoPhone, address_street |-> Undefined,
              address_postal_code |-> Undefined, address_region |-> Undefined]

Allow(l) == [l EXCEPT !.pc = "done", !.result = "allow"]

Redirect(l, error) == [l EXCEPT !.pc = "done", !.result = error]

\* catch (err) { return true; }
CatchRethrow(l) == [l EXCEPT !.pc = "done", !.result = "exception", !.threw = TRUE]

Catch(l) == [l EXCEPT !.pc = "done", !.result = "allow", !.threw = TRUE]

SignInLocals(provider, paid, phoneRaw, profileEmail, user, address, fault) ==
    [pc |-> "findPhone", result |-> "running", threw |-> FALSE, faulted |-> FALSE,
     dbCalls |-> 0,
     provider |-> provider, providerAccountId |-> paid,
     profile |-> [phone_number |-> phoneRaw, email |-> profileEmail, address |-> address],
     user |-> user, fault |-> fault,
     emailAddr |-> IF Truthy(profileEmail) THEN profileEmail
                   ELSE IF Truthy(user.email) THEN user.email
                   ELSE Undefined,
     phoneNumber |-> normalizePhone(phoneRaw),
     addressData |-> mapAddress(address),
     userByPhone |-> NoUserRow, userByEmail |-> NoUserRow,
     updates |-> NoUpdates, linkedAccount |-> NULL]

SignInBeginNoPhoneGuard(provider, paid, phoneRaw, profileEmail, user, address, fault) ==
    LET l == SignInLocals(provider, paid, phoneRaw, profileEmail, user, address, fault)
    IN  IF ~Truthy(provider) \/ ~Truthy(paid) THEN Allow(l) ELSE l

SignInBegin(provider, paid, phoneRaw, profileEmail, user, address, fault) ==
    LET l == SignInLocals(provider, paid, phoneRaw, profileEmail, user, address, fault)
    IN  IF ~Truthy(provider) \/ ~Truthy(paid) THEN Allow(l)
        ELSE IF l.phoneNumber = NoPhone THEN Allow(l)
        ELSE l

\* lines 304-311: the profile fields to write onto the phone-matched user
UpdatesAnyEmail(l) ==
    [email |-> IF Truthy(l.emailAddr) THEN l.emailAddr ELSE Undefined,
     phone |-> IF l.userByPhone.phone /= l.phoneNumber THEN l.phoneNumber ELSE NoPhone,
     address_street |-> IF Truthy(l.addressData.address_street)
                        THEN l.addressData.address_street ELSE Undefined,
     address_postal_code |-> IF Truthy(l.addressData.address_postal_code)
                             THEN l.addressData.address_postal_code ELSE Undefined,
     address_region |-> IF Truthy(l.addressData.address_region)
                        THEN l.addressData.address_region ELSE Undefined]

ComputeUpdates(l) ==
    [email |-> IF ~Truthy(l.userByPhone.email) /\ Truthy(l.emailAddr)
               THEN l.emailAddr ELSE Undefined,
     phone |-> IF l.userByPhone.phone /= l.phoneNumber THEN l.phoneNumber ELSE NoPhone,
     address_street |-> IF Truthy(l.addressData.address_street)
                        THEN l.addressData.address_street ELSE Undefined,
     address_postal_code |-> IF Truthy(l.addressData.address_postal_code)
                             THEN l.addressData.address_postal_code ELSE Undefined,
     address_region |-> IF Truthy(l.addressData.address_region)
                        THEN l.addressData.address_region ELSE Undefined]

AfterLookupsProvision(l) ==
    IF l.userByPhone.id /= NULL
    THEN LET upd == ComputeUpdates(l) IN
         IF upd /= NoUpdates /\ l.user.hasId
         THEN [l EXCEPT !.pc = "update", !.updates = upd]
         ELSE [l EXCEPT !.pc = "findAccount", !.updates = upd]
    ELSE IF l.userByEmail.id /= NULL THEN Redirect(l, "OAuthAccountNotLinked")
    ELSE Allow(l)

AfterLookupsNoEmailCheck(l) ==
    IF l.userByPhone.id /= NULL
    THEN LET upd == ComputeUpdates(l) IN
         IF upd /= NoUpdates /\ l.user.hasId
         THEN [l EXCEPT !.pc = "update", !.updates = upd]
         ELSE [l EXCEPT !.pc = "findAccount", !.updates = upd]
    ELSE Redirect(l, "UserNotFound")

\* lines 301-394 up to the next await: which case applies once both lookups are done
AfterLookups(l) ==
    IF l.userByPhone.id /= NULL
    THEN LET upd == ComputeUpdates(l) IN
         IF upd /= NoUpdates /\ l.user.hasId
         THEN [l EXCEPT !.pc = "update", !.updates = upd]
         ELSE [l EXCEPT !.pc = "findAccount", !.updates = upd]
    ELSE IF l.userByEmail.id /= NULL THEN Redirect(l, "OAuthAccountNotLinked")
    ELSE Redirect(l, "UserNotFound")

\* a user row with the fields of data that are set written over it
ApplyUserData(row, data) ==
    [row EXCEPT
        !.email = IF data.email /= Undefined THEN data.email ELSE @,
        !.phone = IF data.phone /= NoPhone THEN data.phone ELSE @,
        !.address_street = IF data.address_street /= Undefined
                           THEN data.address_street ELSE @,
        !.address_postal_code = IF data.address_postal_code /= Undefined
                                THEN data.address_postal_code ELSE @,
        !.address_region = IF data.address_region /= Undefined
                           THEN data.address_region ELSE @]

\* only the unique index on users.phone
UserUniqueViolationPhoneOnly(us, u, data) ==
    data.phone /= NoPhone /\ \E o \in DOMAIN us \ {u} : us[o].phone = data.phone

\* the unique indexes on users.phone and users.email would reject writing data to u
UserUniqueViolation(us, u, data) ==
    \/ data.email /= Undefined /\ data.email /= NULL
         /\ \E o \in DOMAIN us \ {u} : us[o].email = data.email
    \/ data.phone /= NoPhone /\ \E o \in DOMAIN us \ {u} : us[o].phone = data.phone

\* the unique index on accounts (provider, providerAccountId) would reject the row
AccountUniqueViolation(accs, provider, paid) == FindAccount(accs, provider, paid) /= NULL

AccountRow(u, provider, paid) ==
    [userId |-> u, provider |-> provider, providerAccountId |-> paid]

\* a row of user_login_events
LoginEventRow(id, u) == [id |-> id, userId |-> u, provider |-> "vipps"]

\* prisma.account.create: [ok, accounts]
AccountCreateNoUnique(db, u, provider, paid) ==
    IF u \notin DOMAIN db.users
    THEN [ok |-> FALSE, accounts |-> db.accounts]
    ELSE [ok |-> TRUE, accounts |-> Append(db.accounts, AccountRow(u, provider, paid))]

AccountCreate(db, u, provider, paid) ==
    IF u \notin DOMAIN db.users \/ AccountUniqueViolation(db.accounts, provider, paid)
    THEN [ok |-> FALSE, accounts |-> db.accounts]
    ELSE [ok |-> TRUE, accounts |-> Append(db.accounts, AccountRow(u, provider, paid))]

\* prisma.user.update({ where: { phone }, data }): [ok, users]
UserUpdateByPhone(us, phone, data) ==
    LET hit == FindUserByPhone(us, phone) IN
    IF hit.id = NULL \/ UserUniqueViolation(us, hit.id, data)
    THEN [ok |-> FALSE, users |-> us]
    ELSE [ok |-> TRUE, users |-> [us EXCEPT ![hit.id] = ApplyUserData(@, data)]]

Called(l) == [l EXCEPT !.dbCalls = @ + 1]

SignInStep(db, l0) ==
    LET l == Called(l0) IN
    IF l.fault = l.pc THEN [db |-> db, l |-> Catch([l EXCEPT !.faulted = TRUE])]
    ELSE CASE l.pc = "findPhone" ->
                LET l1 == [l EXCEPT !.userByPhone = FindUserByPhone(db.users, l.phoneNumber)]
                IN  [db |-> db,
                     l |-> IF Truthy(l.emailAddr) THEN [l1 EXCEPT !.pc = "findEmail"]
                           ELSE AfterLookups(l1)]
           [] l.pc = "findEmail" ->
                [db |-> db,
                 l |-> AfterLookups(
                          [l EXCEPT !.userByEmail = FindUserByEmail(db.users, l.emailAddr)])]
           [] l.pc = "update" ->
                LET r == UserUpdateByPhone(db.users, l.phoneNumber, l.updates) IN
                IF r.ok THEN [db |-> [db EXCEPT !.users = r.users],
                              l |-> [l EXCEPT !.pc = "findAccount"]]
                ELSE [db |-> db, l |-> Catch(l)]
           [] l.pc = "findAccount" ->
                LET owner == FindAccount(db.accounts, l.provider, l.providerAccountId)
                    l1 == [l EXCEPT !.linkedAccount = owner]
                IN  [db |-> db,
                     l |-> IF owner /= NULL /\ owner /= l.userByPhone.id
                           THEN Redirect(l1, "OAuthAccountNotLinked")
                           ELSE IF owner = NULL THEN [l1 EXCEPT !.pc = "create"]
                           ELSE Allow(l1)]
           [] l.pc = "create" ->
                LET r == AccountCreate(db, l.userByPhone.id, l.provider, l.providerAccountId)
                IN  IF r.ok THEN [db |-> [db EXCEPT !.accounts = r.accounts], l |-> Allow(l)]
                    ELSE [db |-> db, l |-> Catch(l)]

\* the whole handler, one request at a time
RECURSIVE RunSignIn(_, _)
RunSignIn(db, l) ==
    IF l.pc = "done" THEN [db |-> db, l |-> l]
    ELSE LET r == SignInStep(db, l) IN RunSignIn(r.db, r.l)

(***************************************************************************)
(* Session issuance: callbacks.jwt and events.signIn of lib/auth.ts, and   *)
(* the session the middleware reads.  Of SESSION_USER_FIELDS the token     *)
(* keeps the fields a decision reads: role, acceptedTermsVersion and       *)
(* lastLoginAt.                                                            *)
(***************************************************************************)
SESSION_USER_FIELDS == {"role", "acceptedTermsVersion", "lastLoginAt"}

NoFields == [role |-> Undefined, acceptedTermsVersion |-> Undefined, lastLoginAt |-> Undefined]

\* copyUserFields(target, source): every listed key of source that is not undefined
copyUserFields(target, source) ==
    [k \in DOMAIN target |->
        IF k \in SESSION_USER_FIELDS /\ source[k] /= Undefined THEN source[k] ELSE target[k]]

FieldsOf(row) ==
    [role |-> row.role, acceptedTermsVersion |-> row.acceptedTermsVersion,
     lastLoginAt |-> row.lastLoginAt]

\* jwt({ token, user }) at sign-in: user is the adapter's row of the link's owner
JwtSignIn(uid, row) ==
    copyUserFields([uid |-> uid, acceptedTerms |-> row.acceptedTerms, role |-> Undefined,
                    acceptedTermsVersion |-> Undefined, lastLoginAt |-> Undefined],
                   FieldsOf(row))

\* the data of events.signIn with the timestamp set for every user
EventUpdatesAlwaysStamp(row, phoneRaw, profileEmail, address, now) ==
    LET phone == normalizePhone(phoneRaw)
        addressData == mapAddress(address)
    IN  [phone |-> phone,
         email |-> IF Truthy(profileEmail) /\ ~Truthy(row.email) THEN profileEmail
                   ELSE Undefined,
         address_street |-> addressData.address_street,
         address_postal_code |-> addressData.address_postal_code,
         address_region |-> addressData.address_region,
         lastLoginAt |-> now]

\* events.signIn: the data written to the signed-in user's row
EventUpdates(row, phoneRaw, profileEmail, address, now) ==
    LET phone == normalizePhone(phoneRaw)
        addressData == mapAddress(address)
    IN  [phone |-> phone,
         email |-> IF Truthy(profileEmail) /\ ~Truthy(row.email) THEN profileEmail
                   ELSE Undefined,
         address_street |-> addressData.address_street,
         address_postal_code |-> addressData.address_postal_code,
         address_region |-> addressData.address_region,
         lastLoginAt |-> IF Truthy(row.lastLoginAt) THEN now ELSE Undefined]

\* an upsert keyed by the asserted phone in place of the update by id
EventSignInUpsert(us, provider, uid, row, phoneRaw, profileEmail, address, now) ==
    LET phone == normalizePhone(phoneRaw)
        free == UserIds \ DOMAIN us
    IN  IF phone /= NoPhone /\ FindUserByPhone(us, phone).id = NULL /\ free /= {}
        THEN [ok |-> TRUE,
              users |-> [x \in DOMAIN us \cup {CHOOSE f \in free : TRUE} |->
                            IF x \in DOMAIN us THEN us[x]
                            ELSE NewUser(phone, "customer", now)]]
        ELSE [ok |-> TRUE, users |-> us]

\* prisma.user.update({ where: { id }, data }) of events.signIn: [ok, users]
EventSignIn(us, provider, uid, row, phoneRaw, profileEmail, address, now) ==
    IF provider /= "vipps" THEN [ok |-> TRUE, users |-> us]
    ELSE LET data == EventUpdates(row, phoneRaw, profileEmail, address, now) IN
         IF data.phone = NoPhone /\ data.email = Undefined /\ ~address.isObject
            /\ data.lastLoginAt = Undefined
         THEN [ok |-> TRUE, users |-> us]
         ELSE IF uid \notin DOMAIN us \/ UserUniqueViolation(us, uid, data)
         THEN [ok |-> FALSE, users |-> us]
         ELSE [ok |-> TRUE,
               users |-> [us EXCEPT ![uid] =
                            [ApplyUserData(@, data) EXCEPT
                                !.lastLoginAt = IF data.lastLoginAt /= Undefined
                                                THEN data.lastLoginAt ELSE @]]]

SetToken(toks, b, tok) ==
    [x \in DOMAIN toks \cup {b} |-> IF x = b THEN tok ELSE toks[x]]

(***************************************************************************)
(* middleware.ts.  A path is the sequence of its segments.                 *)
(***************************************************************************)
StartsWith(pathname, prefix) ==
    Len(pathname) >= Len(prefix) /\ SubSeq(pathname, 1, Len(prefix)) = prefix

\* the session callback of lib/auth-edge.ts: what auth() shows of browser b's token
HasSession(toks, b) == b \in DOMAIN toks

needsOnboarding(toks, b) ==
    /\ HasSession(toks, b)
    /\ LET acceptedLatestTerms ==
               /\ toks[b].acceptedTerms = TRUE
               /\ toks[b].acceptedTermsVersion = LATEST_TERMS_VERSION
           hasLoggedInBefore == Truthy(toks[b].lastLoginAt)
       IN  ~acceptedLatestTerms \/ ~hasLoggedInBefore

\* the file extension a path segment ends with, "" when it has none
Extension(segment) ==
    CASE segment = "logo.png" -> "png"
      [] segment = "10.js" -> "js"
      [] segment = "favicon.ico" -> "ico"
      [] OTHER -> ""

StaticExtensions ==
    {"png", "jpg", "jpeg", "svg", "gif", "ico", "css", "js", "map", "pdf", "txt", "woff",
     "woff2", "ttf", "eot"}

\* /\.(?:png|jpg|...)$/i.test(pathname)
EndsWithStaticExtension(pathname) ==
    pathname /= <<>> /\ Extension(pathname[Len(pathname)]) \in StaticExtensions

\* "next", or the path the request is redirected to
middleware(toks, b, pathname) ==
    IF \/ StartsWith(pathname, <<"_next">>)
       \/ pathname = <<"favicon.ico">>
       \/ EndsWithStaticExtension(pathname)
       \/ StartsWith(pathname, <<"api", "auth">>)
    THEN <<"next">>
    ELSE IF needsOnboarding(toks, b)
            /\ ~StartsWith(pathname, <<"onboarding">>)
            /\ ~StartsWith(pathname, <<"api", "auth">>)
            /\ ~StartsWith(pathname, <<"api", "onboarding">>)
    THEN <<"onboarding">>
    ELSE IF HasSession(toks, b) /\ pathname = <<"login">> THEN <<"avtaler">>
    ELSE IF StartsWith(pathname, <<"login">>) \/ StartsWith(pathname, <<"onboarding">>)
    THEN <<"next">>
    ELSE IF ~HasSession(toks, b) THEN <<"login">>
    ELSE <<"next">>

(***************************************************************************)
(* The route handlers and pages of the app directory, as the framework     *)
(* resolves a path to them; a bracketed directory takes any one segment.   *)
(***************************************************************************)
Pages == {"avtaler", "kart", "profil", "brukere", "kunder", "aktivitet", "login", "onboarding"}

Route(pathname) ==
    LET n == Len(pathname)
        to(h, p) == [handler |-> h, param |-> p]
    IN  IF n = 1 /\ pathname[1] \in Pages THEN to(pathname[1], "")
        ELSE IF n >= 2 /\ pathname[1] = "api"
        THEN IF n = 2 /\ pathname[2] \in {"users", "login-events", "onboarding", "companies"}
             THEN to("api/" \o pathname[2], "")
             ELSE IF n = 3 /\ pathname[2] = "users" THEN to("api/users/[userId]", pathname[3])
             ELSE IF n = 3 /\ pathname[2] = "customers"
             THEN to("api/customers/[customerId]", pathname[3])
             ELSE IF n = 3 /\ pathname[2] = "machines"
             THEN to("api/machines/[machineId]", pathname[3])
             ELSE IF n = 4 /\ pathname[2] = "customers" /\ pathname[4] = "accesses"
             THEN to("api/customers/[customerId]/accesses", pathname[3])
             ELSE IF pathname[2] = "auth" THEN to("api/auth", "")
             ELSE to("none", "")
        ELSE to("none", "")

(***************************************************************************)
(* POST /api/users (app/api/users/route.ts)                                *)
(***************************************************************************)
normalizeGlobalRole(role) == IF role \in {"customer", "super_admin"} THEN role ELSE NULL

RECURSIVE StripSpaces(_)
StripSpaces(s) ==
    IF s = <<>> THEN <<>>
    ELSE IF Head(s) = " " THEN StripSpaces(Tail(s))
    ELSE <<Head(s)>> \o StripSpaces(Tail(s))

\* normalizePhone of app/api/users/route.ts; NoPhone stands for its null
normalizePhoneOfUsersRoute(input) ==
    IF input = NoPhone \/ input = <<>> THEN NoPhone
    ELSE LET trimmed == StripSpaces(input) IN
         IF trimmed /= <<>> /\ Head(trimmed) = "+"
         THEN IF AllDigits(Tail(trimmed)) THEN trimmed ELSE NoPhone
         ELSE IF AllDigits(trimmed) THEN <<"+">> \o trimmed
         ELSE NoPhone

mapCompanyRole(role) ==
    IF role \in {"admin", "selskapsadmin"} THEN "admin"
    ELSE IF role \in {"user", "selskapsbruker"} THEN "user"
    ELSE NULL

RECURSIVE NormalizeFrom(_, _, _)
NormalizeFrom(relationships, seen, normalized) ==
    IF relationships = <<>> THEN normalized
    ELSE LET rel == Head(relationships)
             mappedRole == mapCompanyRole(rel.role)
         IN  IF rel.companyId <= 0 \/ mappedRole = NULL \/ rel.companyId \in seen
             THEN NormalizeFrom(Tail(relationships), seen, normalized)
             ELSE NormalizeFrom(Tail(relationships), seen \cup {rel.companyId},
                                Append(normalized,
                                       [customerId |-> rel.companyId, role |-> mappedRole]))

normalizeRelationships(relationships) == NormalizeFrom(relationships, {}, <<>>)

SeqRange(q) == {q[i] : i \in 1..Len(q)}

\* the handler's answer: [status, users, grants]
\* id is the identifier the datastore gives the new row
PostUsers(toks, b, us, gs, phone, role, relationships, id, now) ==
    LET deny(st) == [status |-> st, users |-> us, grants |-> gs]
        normalizedRole == normalizeGlobalRole(role)
        normalizedPhone == normalizePhoneOfUsersRoute(phone)
        normalizedRelationships ==
            IF normalizedRole = "customer" THEN normalizeRelationships(relationships)
            ELSE <<>>
        companyIds == {r.customerId : r \in SeqRange(normalizedRelationships)}
    IN  IF ~HasSession(toks, b) \/ toks[b].role /= "super_admin" THEN deny(403)
        ELSE IF normalizedRole = NULL THEN deny(400)
        ELSE IF normalizedPhone = NoPhone THEN deny(400)
        ELSE IF normalizedRole = "customer" /\ normalizedRelationships = <<>> THEN deny(400)
        ELSE IF FindUserByPhone(us, normalizedPhone).id /= NULL THEN deny(409)
        ELSE IF companyIds \ Customers /= {} THEN deny(400)
        ELSE [status |-> 201,
              users |-> [x \in DOMAIN us \cup {id} |->
                            IF x = id THEN NewUser(normalizedPhone, normalizedRole, now)
                            ELSE us[x]],
              grants |-> gs \cup {[userId |-> id, customerId |-> r.customerId,
                                   role |-> r.role] : r \in SeqRange(normalizedRelationships)}]

(***************************************************************************)
(* The admin route handlers: app/api/users/[userId]/route.ts,              *)
(* app/api/customers/[customerId]/route.ts and .../accesses/route.ts,      *)
(* app/api/login-events/route.ts, and GET of app/api/users/route.ts.       *)
(***************************************************************************)
\* Number.parseInt(segment, 10) on the path segments requests carry
parseInt(segment) ==
    CASE segment = "10" -> [isInteger |-> TRUE, value |-> 10]
      [] segment = "10.js" -> [isInteger |-> TRUE, value |-> 10]
      [] segment = "20" -> [isInteger |-> TRUE, value |-> 20]
      [] segment = "30" -> [isInteger |-> TRUE, value |-> 30]
      [] segment = "0" -> [isInteger |-> TRUE, value |-> 0]
      [] OTHER -> [isInteger |-> FALSE, value |-> 0]

\* !session?.user || session.user.role !== "super_admin"
NotSuperAdmin(toks, b) == ~HasSession(toks, b) \/ toks[b].role /= "super_admin"

\* the accesses relation of a user row / the rows of a customer
AccessesOfUser(gs, userId) ==
    {[customerId |-> r.customerId, role |-> r.role] : r \in {x \in gs : x.userId = userId}}

AccessesOfCustomer(gs, customerId) ==
    {[userId |-> r.userId, role |-> r.role] : r \in {x \in gs : x.customerId = customerId}}

Answer(st, body) == [status |-> st, body |-> body]

\* GET /api/users
GetUsers(toks, b, us, gs) ==
    IF NotSuperAdmin(toks, b) THEN Answer(403, {})
    ELSE Answer(200, {[id |-> u, accesses |-> AccessesOfUser(gs, u)] : u \in DOMAIN us})

\* GET /api/users/[userId]
GetUser(toks, b, us, gs, userId) ==
    IF NotSuperAdmin(toks, b) THEN Answer(403, {})
    ELSE IF userId = "" THEN Answer(400, {})
    ELSE IF userId \notin DOMAIN us THEN Answer(404, {})
    ELSE Answer(200, AccessesOfUser(gs, userId))

\* the same handler letting a session through only by its own admin row for the customer
GetCustomerAccessesByGrant(toks, b, gs, rawCustomerId) ==
    LET customerId == parseInt(rawCustomerId) IN
    IF ~HasSession(toks, b)
       \/ ~\E r \in gs : /\ r.userId = toks[b].uid /\ r.customerId = customerId.value
                          /\ r.role = "admin"
    THEN Answer(403, {})
    ELSE IF ~customerId.isInteger \/ customerId.value <= 0 THEN Answer(400, {})
    ELSE Answer(200, AccessesOfCustomer(gs, customerId.value))

\* GET /api/customers/[customerId]/accesses
GetCustomerAccesses(toks, b, gs, rawCustomerId) ==
    LET customerId == parseInt(rawCustomerId) IN
    IF NotSuperAdmin(toks, b) THEN Answer(403, {})
    ELSE IF ~customerId.isInteger \/ customerId.value <= 0 THEN Answer(400, {})
    ELSE Answer(200, AccessesOfCustomer(gs, customerId.value))

\* GET /api/customers/[customerId]; upstream is the status the inventory API answers with
GetCustomer(toks, b, rawCustomerId, upstream) ==
    LET customerId == parseInt(rawCustomerId) IN
    IF NotSuperAdmin(toks, b) THEN Answer(403, {})
    ELSE IF ~customerId.isInteger \/ customerId.value <= 0 THEN Answer(400, {})
    ELSE IF upstream = 200 THEN Answer(200, {customerId.value})
    ELSE IF upstream = 404 THEN Answer(404, {})
    ELSE Answer(502, {})

\* GET /api/login-events; no code of the repository writes a login event
GetLoginEvents(toks, b) ==
    IF NotSuperAdmin(toks, b) THEN Answer(403, {}) ELSE Answer(200, {})

\* derivePermissions of AgreementsTable.tsx
derivePermissions(accesses, viewer) ==
    LET all(v) == [canEditRoles |-> v, canRemoveUsers |-> v, canSave |-> v] IN
    IF viewer.role = "super_admin" THEN all(TRUE)
    ELSE IF \E a \in accesses : a.userId = viewer.id /\ a.role = "admin" THEN all(TRUE)
    ELSE all(FALSE)

\* the rows a createMany would write break the (user_id, customer_id) unique index or
\* a foreign key
CreateManyFailsNoUnique(us, gs, rows) ==
    \E i \in 1..Len(rows) : rows[i].userId \notin DOMAIN us \/ rows[i].customerId \notin Customers

CreateManyFails(us, gs, rows) ==
    \/ \E i, j \in 1..Len(rows) :
          i /= j /\ rows[i].userId = rows[j].userId /\ rows[i].customerId = rows[j].customerId
    \/ \E i \in 1..Len(rows) :
          \E r \in gs : r.userId = rows[i].userId /\ r.customerId = rows[i].customerId
    \/ \E i \in 1..Len(rows) :
          rows[i].userId \notin DOMAIN us \/ rows[i].customerId \notin Customers

\* prisma.$transaction([deleteMany(where), createMany(rows)]) run alone: the table after
\* it, or the table as it was when the createMany fails
ReplaceMerging(us, gs, doomed, rows) ==
    [ok |-> TRUE, grants |-> gs \cup SeqRange(rows)]

\* the two statements run one after the other with no transaction around them
ReplaceNoRollback(us, gs, doomed, rows) ==
    IF rows /= <<>> /\ CreateManyFails(us, gs \ doomed, rows)
    THEN [ok |-> FALSE, grants |-> gs \ doomed]
    ELSE [ok |-> TRUE, grants |-> (gs \ doomed) \cup SeqRange(rows)]

Replace(us, gs, doomed, rows) ==
    IF rows /= <<>> /\ CreateManyFails(us, gs \ doomed, rows)
    THEN [ok |-> FALSE, grants |-> gs]
    ELSE [ok |-> TRUE, grants |-> (gs \ doomed) \cup SeqRange(rows)]

RECURSIVE NormalizeUserAccesses(_, _)
NormalizeUserAccesses(accesses, userId) ==
    IF accesses = <<>> THEN <<>>
    ELSE LET entry == Head(accesses)
             rest == NormalizeUserAccesses(Tail(accesses), userId)
         IN  IF entry.customerId = 0 \/ entry.role \notin {"admin", "user"} THEN rest
             ELSE <<[userId |-> userId, customerId |-> entry.customerId,
                     role |-> entry.role]>> \o rest

\* PATCH /api/users/[userId]: [status, grants]
PatchUserUnguarded(toks, b, us, gs, userId, accesses) ==
    LET r == Replace(us, gs, {x \in gs : x.userId = userId},
                     NormalizeUserAccesses(accesses, userId))
    IN  [status |-> IF r.ok THEN 200 ELSE 500, grants |-> r.grants]

PatchUser(toks, b, us, gs, userId, accesses) ==
    IF NotSuperAdmin(toks, b) THEN [status |-> 403, grants |-> gs]
    ELSE IF userId = "" THEN [status |-> 400, grants |-> gs]
    ELSE LET r == Replace(us, gs, {x \in gs : x.userId = userId},
                          NormalizeUserAccesses(accesses, userId))
         IN  [status |-> IF r.ok THEN 200 ELSE 500, grants |-> r.grants]

RECURSIVE NormalizeCustomerAccesses(_, _)
NormalizeCustomerAccesses(accesses, customerId) ==
    IF accesses = <<>> THEN <<>>
    ELSE LET entry == Head(accesses)
             rest == NormalizeCustomerAccesses(Tail(accesses), customerId)
         IN  IF entry.userId = "" \/ entry.role \notin {"admin", "user"} THEN rest
             ELSE <<[userId |-> entry.userId, customerId |-> customerId,
                     role |-> entry.role]>> \o rest

\* PATCH /api/customers/[customerId]/accesses: [status, grants]
PatchCustomerAccesses(toks, b, us, gs, rawCustomerId, accesses) ==
    LET customerId == parseInt(rawCustomerId) IN
    IF NotSuperAdmin(toks, b) THEN [status |-> 403, grants |-> gs]
    ELSE IF ~customerId.isInteger \/ customerId.value <= 0 THEN [status |-> 400, grants |-> gs]
    ELSE LET r == Replace(us, gs, {x \in gs : x.customerId = customerId.value},
                          NormalizeCustomerAccesses(accesses, customerId.value))
         IN  [status |-> IF r.ok THEN 200 ELSE 500, grants |-> r.grants]

\* the rentals the upstream rental API holds for a customer
Rentals(customerId) ==
    CASE customerId = 10 -> {[id |-> "r1", customerId |-> 10, ended |-> FALSE],
                             [id |-> "r2", customerId |-> 10, ended |-> TRUE]}
      [] customerId = 20 -> {[id |-> "r3", customerId |-> 20, ended |-> FALSE]}
      [] OTHER -> {}

\* GET /api/agreements that asks the upstream for every customer
GetAgreementsAllCustomers(toks, b, gs, configured, upstream) ==
    LET none == [active |-> {}, historical |-> {}]
        end(st, body) == [status |-> st, body |-> body, queried |-> {}]
        allAgreements == UNION {Rentals(c) : c \in Customers}
    IN  IF ~HasSession(toks, b) THEN end(401, none)
        ELSE IF toks[b].role = "super_admin" THEN end(200, none)
        ELSE IF toks[b].role /= "customer" THEN end(403, none)
        ELSE IF ~configured THEN end(500, none)
        ELSE IF upstream /= 200 THEN [status |-> 502, body |-> none, queried |-> Customers]
        ELSE [status |-> 200,
              body |-> [active |-> {a \in allAgreements : ~a.ended},
                        historical |-> {a \in allAgreements : a.ended}],
              queried |-> Customers]

\* GET /api/agreements: [status, body, queried]; queried are the customers the
\* upstream was asked about, upstream is the status the upstream answers with
GetAgreements(toks, b, gs, configured, upstream) ==
    LET none == [active |-> {}, historical |-> {}]
        end(st, body) == [status |-> st, body |-> body, queried |-> {}]
    IN  IF ~HasSession(toks, b) THEN end(401, none)
        ELSE IF toks[b].role = "super_admin" THEN end(200, none)
        ELSE IF toks[b].role /= "customer" THEN end(403, none)
        ELSE IF ~configured THEN end(500, none)
        ELSE LET accessibleCustomers == {r \in gs : r.userId = toks[b].uid}
                 customerIds == {r.customerId : r \in accessibleCustomers} \ {0}
                 allAgreements == UNION {Rentals(c) : c \in customerIds}
             IN  IF customerIds = {} THEN end(200, none)
                 ELSE IF upstream /= 200
                 THEN [status |-> 502, body |-> none, queried |-> customerIds]
                 ELSE [status |-> 200,
                       body |-> [active |-> {a \in allAgreements : ~a.ended},
                                 historical |-> {a \in allAgreements : a.ended}],
                       queried |-> customerIds]

\* prisma.user.delete that removes the users row and leaves every row that references it
DeleteUserRowOnly(toks, b, us, accs, gs, evs, userId, cascade) ==
    LET keep(st) == [status |-> st, users |-> us, accounts |-> accs, grants |-> gs,
                     loginEvents |-> evs]
    IN  IF NotSuperAdmin(toks, b) THEN keep(403)
        ELSE IF userId = "" THEN keep(400)
        ELSE IF userId \notin DOMAIN us THEN keep(404)
        ELSE [keep(200) EXCEPT !.users = [u \in DOMAIN us \ {userId} |-> us[u]]]

\* DELETE /api/users/[userId]: [status, users, accounts, grants, loginEvents]; the
\* login events go with the user (ON DELETE CASCADE); cascade tells whether the accesses
\* and accounts that reference the user go with it too or hold the delete back
DeleteUser(toks, b, us, accs, gs, evs, userId, cascade) ==
    LET keep(st) == [status |-> st, users |-> us, accounts |-> accs, grants |-> gs,
                     loginEvents |-> evs]
        referenced == (\E r \in gs : r.userId = userId)
                      \/ (\E i \in 1..Len(accs) : accs[i].userId = userId)
    IN  IF NotSuperAdmin(toks, b) THEN keep(403)
        ELSE IF userId = "" THEN keep(400)
        ELSE IF userId \notin DOMAIN us THEN keep(404)
        ELSE IF referenced /\ ~cascade THEN keep(500)
        ELSE [status |-> 200,
              users |-> [u \in DOMAIN us \ {userId} |-> us[u]],
              accounts |-> SelectSeq(accs, LAMBDA a : a.userId /= userId),
              grants |-> {r \in gs : r.userId /= userId},
              loginEvents |-> {e \in evs : e.userId /= userId}]

(***************************************************************************)
(* Inputs                                                                  *)
(***************************************************************************)
Providers == {"vipps", Undefined}
ProviderAccountIds == {"sub1", "sub2", Undefined}
RawPhones == {NoPhone, <<"1">>, <<" ", "+", "2">>, <<"2", "2">>, <<"1", "x">>}
ProfileEmails == {Undefined, "a@x", "b@x"}
\* the user object NextAuth hands to the signIn callback
CallbackUsers == {[hasId |-> TRUE, email |-> Undefined],
                  [hasId |-> FALSE, email |-> "a@x"]}
Addresses == {[isObject |-> FALSE, street_address |-> Undefined, postal_code |-> Undefined,
               region |-> Undefined],
              [isObject |-> TRUE, street_address |-> "s1", postal_code |-> Undefined,
               region |-> "r1"]}
Faults == {"none"} \cup DbCalls
AdminPhones == {<<"2">>, <<"+", "1">>, <<"x">>}
AdminRoles == {"customer", "super_admin", "owner"}
Relationships ==
    {<<>>,
     <<[companyId |-> 10, role |-> "selskapsadmin"]>>,
     <<[companyId |-> 20, role |-> "user"], [companyId |-> 20, role |-> "admin"],
       [companyId |-> 0, role |-> "user"]>>,
     <<[companyId |-> 30, role |-> "user"]>>}

(***************************************************************************)
(* The state after provisioning: the first administrator exists, has       *)
(* signed in through the provider and accepted the terms.                  *)
(***************************************************************************)
AdminRow ==
    [NewUser(<<"+", "1">>, "super_admin", "t0") EXCEPT
        !.acceptedTerms = TRUE, !.acceptedTermsAt = "t0",
        !.acceptedTermsVersion = LATEST_TERMS_VERSION, !.lastLoginAt = "t0"]

NoLast == [op |-> "none"]

\* the tables as a request finds them, and the sessions the access gate then holds back
Snapshot ==
    [users |-> users, accounts |-> accounts, grants |-> grants,
     loginEvents |-> loginEvents,
     pending |-> {b \in DOMAIN tokens : needsOnboarding(tokens, b)}]

Init ==
    /\ users = [u \in {"u1"} |-> AdminRow]
    /\ accounts = <<AccountRow("u1", "vipps", "sub1")>>
    /\ grants = {}
    /\ loginEvents = {}
    /\ tokens = [b \in {"b1"} |-> JwtSignIn("u1", AdminRow)]
    /\ flow = "idle"
    /\ procs = [p \in ProcIds |-> [pc |-> "idle"]]
    /\ last = NoLast

(***************************************************************************)
(* One OAuth callback request: callbacks.signIn, and when it allows, the   *)
(* adapter's lookup of the link's owner, callbacks.jwt and events.signIn.  *)
(* When no link exists after an allowed callback the adapter provisions    *)
(* on its own; that code is not part of this repository and the request    *)
(* ends there without a session.                                           *)
(***************************************************************************)
SignInRequest(b, provider, paid, phoneRaw, profileEmail, user, address, fault, now) ==
    \E r \in {RunSignIn([users |-> users, accounts |-> accounts],
                        SignInBegin(provider, paid, phoneRaw, profileEmail, user, address,
                                    fault))} :
    \E owner \in {FindAccount(r.db.accounts, provider, paid)} :
    \E ev \in {IF r.l.result = "allow" /\ owner /= NULL
                THEN EventSignIn(r.db.users, provider, owner, r.db.users[owner], phoneRaw,
                                 profileEmail, address, now)
                ELSE [ok |-> FALSE, users |-> r.db.users]} :
        /\ flow' = "responding"
        /\ users' = ev.users
        /\ accounts' = r.db.accounts
        /\ tokens' = IF ev.ok THEN SetToken(tokens, b, JwtSignIn(owner, r.db.users[owner]))
                     ELSE tokens
        /\ last' = [op |-> "signIn", provider |-> provider, providerAccountId |-> paid,
                    phoneNumber |-> r.l.phoneNumber, emailAddr |-> r.l.emailAddr,
                    result |-> r.l.result, threw |-> r.l.threw, faulted |-> r.l.faulted,
                    dbCalls |-> r.l.dbCalls,
                    pre |-> Snapshot,
                    mid |-> r.db, issued |-> ev.ok]
        /\ UNCHANGED <<loginEvents, grants, procs>>

SignIn ==
    /\ flow = "idle"
    /\ \E b \in Browsers, provider \in Providers, paid \in ProviderAccountIds,
          phoneRaw \in RawPhones, profileEmail \in ProfileEmails, user \in CallbackUsers,
          address \in Addresses, fault \in Faults, now \in Times :
            SignInRequest(b, provider, paid, phoneRaw, profileEmail, user, address, fault,
                          now)

\* POST /api/users, when the middleware lets the request through
CreateUserRequest(b, phone, role, relationships, now) ==
    \E id \in {IF UserIds \ DOMAIN users = {} THEN NULL
                ELSE CHOOSE x \in UserIds \ DOMAIN users : TRUE} :
    \E r \in {PostUsers(tokens, b, users, grants, phone, role, relationships, id, now)} :
        /\ middleware(tokens, b, <<"api", "users">>) = <<"next">>
        /\ r.status = 201 => id /= NULL
        /\ flow' = "responding"
        /\ users' = r.users
        /\ grants' = r.grants
        /\ last' = [op |-> "createUser", status |-> r.status,
                    pre |-> Snapshot]
        /\ UNCHANGED <<loginEvents, accounts, tokens, procs>>

CreateUser ==
    /\ flow = "idle"
    /\ \E b \in Browsers, phone \in AdminPhones, role \in AdminRoles,
          relationships \in Relationships, now \in Times :
            CreateUserRequest(b, phone, role, relationships, now)

\* the response of the request leaves; the next request is served
Respond ==
    /\ flow = "responding"
    /\ flow' = "idle"
    /\ last' = NoLast
    /\ UNCHANGED <<loginEvents, users, accounts, grants, tokens, procs>>

Next == SignIn \/ CreateUser \/ Respond

Spec == Init /\ [][Next]_vars

(***************************************************************************)
(* Onboarding: callbacks.jwt with trigger "update" (lib/auth.ts) and       *)
(* POST /api/onboarding, from a datastore that holds the first             *)
(* administrator and no session.                                           *)
(***************************************************************************)
\* what a client may send with a session update: session.user and session.acceptedTerms
UpdatePayloads ==
    {[hasUser |-> FALSE, user |-> NoFields, acceptedTerms |-> Undefined],
     [hasUser |-> FALSE, user |-> NoFields, acceptedTerms |-> "true"],
     [hasUser |-> TRUE,
      user |-> [role |-> Undefined, acceptedTermsVersion |-> LATEST_TERMS_VERSION,
                lastLoginAt |-> "t1"],
      acceptedTerms |-> "true"],
     [hasUser |-> TRUE,
      user |-> [role |-> "super_admin", acceptedTermsVersion |-> Undefined,
                lastLoginAt |-> Undefined],
      acceptedTerms |-> Undefined]}

ClientTermsVersions == {Undefined, LATEST_TERMS_VERSION, "v0"}

\* a session update that never reads the user's row
JwtUpdateNoRefresh(tok, us, payload) ==
    LET t1 == IF payload.hasUser THEN copyUserFields(tok, payload.user) ELSE tok
    IN  IF payload.acceptedTerms \in {"true", "false"}
        THEN [t1 EXCEPT !.acceptedTerms = (payload.acceptedTerms = "true")]
        ELSE t1

\* what handleSubmit of the onboarding page sends after its POST succeeded: no user
\* object, acceptedTerms true
SubmitPayload == [hasUser |-> FALSE, user |-> NoFields, acceptedTerms |-> "true"]

\* jwt({ token, trigger: "update", session })
JwtUpdate(tok, us, payload) ==
    LET t1 == IF payload.hasUser THEN copyUserFields(tok, payload.user)
              ELSE IF Truthy(tok.uid) /\ tok.uid \in DOMAIN us
              THEN copyUserFields(tok, FieldsOf(us[tok.uid]))
              ELSE tok
    IN  IF payload.acceptedTerms \in {"true", "false"}
        THEN [t1 EXCEPT !.acceptedTerms = (payload.acceptedTerms = "true")]
        ELSE t1

\* POST /api/onboarding: [status, users]
PostOnboarding(toks, b, us, versionFromClient, now) ==
    IF ~HasSession(toks, b) \/ ~Truthy(toks[b].uid) THEN [status |-> 401, users |-> us]
    ELSE IF Truthy(versionFromClient) /\ versionFromClient /= LATEST_TERMS_VERSION
    THEN [status |-> 409, users |-> us]
    ELSE IF toks[b].uid \notin DOMAIN us THEN [status |-> 500, users |-> us]
    ELSE [status |-> 200,
          users |-> [us EXCEPT ![toks[b].uid] =
                        [@ EXCEPT !.acceptedTerms = TRUE, !.acceptedTermsAt = now,
                                  !.acceptedTermsVersion = LATEST_TERMS_VERSION,
                                  !.lastLoginAt = now]]]

FreshAdminRow == NewUser(<<"+", "1">>, "super_admin", "t0")

InitOnboarding ==
    /\ users = [u \in {"u1"} |-> FreshAdminRow]
    /\ accounts = <<>>
    /\ grants = {}
    /\ loginEvents = {}
    /\ tokens = [b \in {} |-> NULL]
    /\ flow = "idle"
    /\ procs = [p \in ProcIds |-> [pc |-> "idle"]]
    /\ last = NoLast

\* sign-ins of provisioned users with nothing but the phone asserted
PlainSignIn ==
    /\ flow = "idle"
    /\ \E b \in Browsers, paid \in {"sub1", "sub2"},
          phoneRaw \in {<<"1">>, <<" ", "+", "2">>}, now \in Times :
            SignInRequest(b, "vipps", paid, phoneRaw, Undefined,
                          [hasId |-> TRUE, email |-> Undefined],
                          [isObject |-> FALSE, street_address |-> Undefined,
                           postal_code |-> Undefined, region |-> Undefined],
                          "none", now)

SessionUpdate ==
    /\ flow = "idle"
    /\ \E b \in DOMAIN tokens, payload \in UpdatePayloads :
          /\ middleware(tokens, b, <<"api", "auth", "session">>) = <<"next">>
          /\ flow' = "responding"
          /\ tokens' = [tokens EXCEPT ![b] = JwtUpdate(@, users, payload)]
          /\ last' = [op |-> "sessionUpdate", browser |-> b, payload |-> payload,
                      token |-> tokens[b], pre |-> Snapshot]
          /\ UNCHANGED <<loginEvents, users, accounts, grants, procs>>

AcceptTerms ==
    /\ flow = "idle"
    /\ \E b \in Browsers, versionFromClient \in ClientTermsVersions, now \in Times :
        \E r \in {PostOnboarding(tokens, b, users, versionFromClient, now)} :
          /\ middleware(tokens, b, <<"api", "onboarding">>) = <<"next">>
          /\ flow' = "responding"
          /\ users' = r.users
          /\ last' = [op |-> "acceptTerms", status |-> r.status, pre |-> Snapshot]
          /\ UNCHANGED <<loginEvents, accounts, grants, tokens, procs>>

\* the paths a browser asks for
Paths ==
    {<<"avtaler">>, <<"onboarding">>, <<"login">>, <<"logo.png">>,
     <<"api", "onboarding">>, <<"api", "auth", "session">>, <<"api", "users">>,
     <<"api", "customers", "10">>, <<"api", "customers", "10.js">>}

\* a GET for a path: the middleware's answer and the handler the path resolves to
Navigate ==
    /\ flow = "idle"
    /\ \E b \in Browsers, pathname \in Paths :
          /\ flow' = "responding"
          /\ last' = [op |-> "navigate", browser |-> b, pathname |-> pathname,
                      answer |-> middleware(tokens, b, pathname),
                      handler |-> Route(pathname).handler, pre |-> Snapshot]
          /\ UNCHANGED <<loginEvents, users, accounts, grants, tokens, procs>>

NextOnboarding == Navigate \/ PlainSignIn \/ SessionUpdate \/ AcceptTerms \/ CreateUser \/ Respond

SpecOnboarding == InitOnboarding /\ [][NextOnboarding]_vars

(***************************************************************************)
(* Administration: the users and customers route handlers, asked by a      *)
(* super_admin session and by a customer session, both past onboarding.    *)
(***************************************************************************)
AdminUserIds == UserIds \cup {"u3"}
TargetUserIds == AdminUserIds \cup {"u9"}
CustomerSegments == {"10", "20", "30", "0", "x"}
UpstreamStatuses == {200, 404, 500}

UserAccessPayloads ==
    {<<>>,
     <<[customerId |-> 10, role |-> "user"]>>,
     <<[customerId |-> 10, role |-> "admin"], [customerId |-> 20, role |-> "user"]>>,
     <<[customerId |-> 20, role |-> "admin"], [customerId |-> 20, role |-> "user"]>>,
     <<[customerId |-> 0, role |-> "user"], [customerId |-> 10, role |-> "owner"],
       [customerId |-> 20, role |-> "admin"]>>,
     <<[customerId |-> 30, role |-> "user"]>>}

CustomerAccessPayloads ==
    {<<>>,
     <<[userId |-> "u2", role |-> "admin"]>>,
     <<[userId |-> "u1", role |-> "user"], [userId |-> "u2", role |-> "user"]>>,
     <<[userId |-> "u2", role |-> "admin"], [userId |-> "u2", role |-> "user"]>>,
     <<[userId |-> "", role |-> "user"], [userId |-> "u3", role |-> "owner"],
       [userId |-> "u3", role |-> "admin"]>>,
     <<[userId |-> "u9", role |-> "user"]>>}

CustomerRow ==
    [NewUser(<<"+", "2">>, "customer", "t0") EXCEPT
        !.acceptedTerms = TRUE, !.acceptedTermsAt = "t0",
        !.acceptedTermsVersion = LATEST_TERMS_VERSION, !.lastLoginAt = "t0"]

InitAdmin ==
    /\ users = [u \in {"u1", "u2"} |-> IF u = "u1" THEN AdminRow ELSE CustomerRow]
    /\ accounts = <<AccountRow("u1", "vipps", "sub1"), AccountRow("u2", "vipps", "sub2")>>
    /\ grants = {[userId |-> "u2", customerId |-> 10, role |-> "admin"],
                 [userId |-> "u2", customerId |-> 20, role |-> "user"]}
    /\ loginEvents = {LoginEventRow("e1", "u1"), LoginEventRow("e2", "u2"),
                      LoginEventRow("e3", "u2")}
    /\ tokens = [b \in {"b1", "b2"} |->
                   IF b = "b1" THEN JwtSignIn("u1", AdminRow) ELSE JwtSignIn("u2", CustomerRow)]
    /\ flow = "idle"
    /\ procs = [p \in ProcIds |-> [pc |-> "idle"]]
    /\ last = NoLast

\* identifiers no row and no session refers to
UnusedUserIds == AdminUserIds \ (DOMAIN users \cup {tokens[b].uid : b \in DOMAIN tokens})

AdminCreateUser ==
    /\ flow = "idle"
    /\ \E b \in DOMAIN tokens, phone \in {<<"3">>, <<"+", "2">>},
          role \in {"customer", "super_admin"}, relationships \in Relationships,
          now \in Times :
        \E id \in {IF UnusedUserIds = {} THEN NULL ELSE CHOOSE x \in UnusedUserIds : TRUE} :
        \E r \in {PostUsers(tokens, b, users, grants, phone, role, relationships, id, now)} :
          /\ middleware(tokens, b, <<"api", "users">>) = <<"next">>
          /\ r.status = 201 => id /= NULL
          /\ flow' = "responding"
          /\ users' = r.users
          /\ grants' = r.grants
          /\ last' = [op |-> "createUser", browser |-> b, status |-> r.status,
                      pre |-> Snapshot]
          /\ UNCHANGED <<loginEvents, accounts, tokens, procs>>

ReplaceUserGrants ==
    /\ flow = "idle"
    /\ \E b \in DOMAIN tokens, userId \in TargetUserIds, accesses \in UserAccessPayloads :
        \E r \in {PatchUser(tokens, b, users, grants, userId, accesses)} :
          /\ middleware(tokens, b, <<"api", "users", userId>>) = <<"next">>
          /\ flow' = "responding"
          /\ grants' = r.grants
          /\ last' = [op |-> "patchUser", browser |-> b, status |-> r.status,
                      userId |-> userId, accesses |-> accesses, pre |-> Snapshot]
          /\ UNCHANGED <<loginEvents, users, accounts, tokens, procs>>

ReplaceCustomerGrants ==
    /\ flow = "idle"
    /\ \E b \in DOMAIN tokens, rawCustomerId \in CustomerSegments,
          accesses \in CustomerAccessPayloads :
        \E r \in {PatchCustomerAccesses(tokens, b, users, grants, rawCustomerId, accesses)} :
          /\ middleware(tokens, b, <<"api", "customers", rawCustomerId, "accesses">>)
                = <<"next">>
          /\ flow' = "responding"
          /\ grants' = r.grants
          /\ last' = [op |-> "patchCustomer", browser |-> b, status |-> r.status,
                      customerId |-> parseInt(rawCustomerId), accesses |-> accesses,
                      pre |-> Snapshot]
          /\ UNCHANGED <<loginEvents, users, accounts, tokens, procs>>

RemoveUser ==
    /\ flow = "idle"
    /\ \E b \in DOMAIN tokens, userId \in TargetUserIds, cascade \in BOOLEAN :
        \E r \in {DeleteUser(tokens, b, users, accounts, grants, loginEvents, userId,
                              cascade)} :
          /\ middleware(tokens, b, <<"api", "users", userId>>) = <<"next">>
          /\ flow' = "responding"
          /\ users' = r.users
          /\ accounts' = r.accounts
          /\ grants' = r.grants
          /\ loginEvents' = r.loginEvents
          /\ last' = [op |-> "deleteUser", browser |-> b, status |-> r.status,
                      userId |-> userId, pre |-> Snapshot]
          /\ UNCHANGED <<tokens, procs>>

\* the GET handlers: the answer is kept, no table changes
ReadRoutes == {"users", "user", "customer", "customerAccesses", "loginEvents"}

ReadAnswer(b, route, userId, rawCustomerId, upstream) ==
    CASE route = "users" -> GetUsers(tokens, b, users, grants)
      [] route = "user" -> GetUser(tokens, b, users, grants, userId)
      [] route = "customer" -> GetCustomer(tokens, b, rawCustomerId, upstream)
      [] route = "customerAccesses" -> GetCustomerAccesses(tokens, b, grants, rawCustomerId)
      [] route = "loginEvents" -> GetLoginEvents(tokens, b)

ReadPath(route, userId, rawCustomerId) ==
    CASE route = "users" -> <<"api", "users">>
      [] route = "user" -> <<"api", "users", userId>>
      [] route = "customer" -> <<"api", "customers", rawCustomerId>>
      [] route = "customerAccesses" -> <<"api", "customers", rawCustomerId, "accesses">>
      [] route = "loginEvents" -> <<"api", "login-events">>

Read ==
    /\ flow = "idle"
    /\ \E b \in DOMAIN tokens, route \in ReadRoutes, userId \in TargetUserIds,
          rawCustomerId \in CustomerSegments, upstream \in UpstreamStatuses :
        \E r \in {ReadAnswer(b, route, userId, rawCustomerId, upstream)} :
          /\ middleware(tokens, b, ReadPath(route, userId, rawCustomerId)) = <<"next">>
          /\ flow' = "responding"
          /\ last' = [op |-> "read", browser |-> b, route |-> route, status |-> r.status,
                      body |-> r.body, userId |-> userId,
                      customerId |-> parseInt(rawCustomerId), pre |-> Snapshot]
          /\ UNCHANGED <<loginEvents, users, accounts, grants, tokens, procs>>

\* GET /api/agreements
ReadAgreements ==
    /\ flow = "idle"
    /\ \E b \in DOMAIN tokens, configured \in BOOLEAN, upstream \in UpstreamStatuses :
        \E r \in {GetAgreements(tokens, b, grants, configured, upstream)} :
          /\ middleware(tokens, b, <<"api", "agreements">>) = <<"next">>
          /\ flow' = "responding"
          /\ last' = [op |-> "agreements", browser |-> b, status |-> r.status,
                      body |-> r.body, queried |-> r.queried, pre |-> Snapshot]
          /\ UNCHANGED <<loginEvents, users, accounts, grants, tokens, procs>>

\* the customer signs in again through the provider, asserting the phone and the
\* link the datastore held for them at the start
CustomerSignIn ==
    /\ flow = "idle"
    /\ \E now \in Times :
          SignInRequest("b2", "vipps", "sub2", <<"2">>, Undefined,
                        [hasId |-> TRUE, email |-> Undefined],
                        CHOOSE a \in Addresses : ~a.isObject, "none", now)

NextAdmin ==
    AdminCreateUser \/ ReplaceUserGrants \/ ReplaceCustomerGrants \/ RemoveUser \/ Read
        \/ ReadAgreements \/ CustomerSignIn
        \/ Respond

SpecAdmin == InitAdmin /\ [][NextAdmin]_vars

(***************************************************************************)
(* Grant replacement as the datastore runs it: the two statements of       *)
(* prisma.$transaction([deleteMany, createMany]) one at a time, under the  *)
(* datastore's default isolation (PostgreSQL, read committed), next to     *)
(* other replacements and to readers of the accesses table.                *)
(***************************************************************************)
\* the rows a where-clause on userId or on customerId selects
Matching(gs, kind, key) ==
    {r \in gs : IF kind = "user" THEN r.userId = key ELSE r.customerId = key}

InFlight(p) == procs[p].pc \in {"delete", "deleteWait", "create", "commit"}

\* rows deleted, and rows inserted, by the transactions of the other requests
LockedByOthers(p) == UNION {procs[q].deleted : q \in {x \in ProcIds \ {p} : InFlight(x)}}
InsertedByOthers(p) == UNION {procs[q].inserted : q \in {x \in ProcIds \ {p} : InFlight(x)}}

SamePair(r1, r2) == r1.userId = r2.userId /\ r1.customerId = r2.customerId

\* what deleteMany does with the rows it selected: [tx, grants]
DeleteManyAutocommit(tx, gs) ==
    [tx |-> [tx EXCEPT !.targets = {}, !.pc = IF tx.rows = <<>> THEN "commit" ELSE "create"],
     grants |-> gs \ tx.targets]

DeleteManyInTransaction(tx, gs) ==
    [tx |-> [tx EXCEPT !.deleted = tx.targets \cap gs, !.targets = {},
                       !.pc = IF tx.rows = <<>> THEN "commit" ELSE "create"],
     grants |-> gs]

\* the replacement requests and the reads of the accesses table
ReplaceRequests ==
    {[kind |-> "user", key |-> "u2", accesses |-> a] :
        a \in {<<>>, <<[customerId |-> 10, role |-> "user"]>>,
                <<[customerId |-> 20, role |-> "admin"]>>}}
    \cup
    {[kind |-> "customer", key |-> "10", accesses |-> a] :
        a \in {<<[userId |-> "u1", role |-> "user"], [userId |-> "u2", role |-> "user"]>>}}

ReadRequests == {[kind |-> "user", key |-> "u2"], [kind |-> "customer", key |-> 10]}

Transaction(kind, key, rows) ==
    [pc |-> "delete", kind |-> kind, key |-> key, rows |-> rows, targets |-> {},
     deleted |-> {}, inserted |-> {}, status |-> 0, observed |-> {}]

\* the handler up to prisma.$transaction
ReplaceBegin ==
    \E p \in ProcIds, b \in DOMAIN tokens, req \in ReplaceRequests :
        /\ procs[p].pc = "idle"
        /\ ~NotSuperAdmin(tokens, b)
        /\ procs' = [procs EXCEPT ![p] =
                IF req.kind = "user"
                THEN Transaction("user", req.key, NormalizeUserAccesses(req.accesses, req.key))
                ELSE Transaction("customer", parseInt(req.key).value,
                                 NormalizeCustomerAccesses(req.accesses,
                                                           parseInt(req.key).value))]
        /\ UNCHANGED <<loginEvents, users, accounts, grants, tokens, flow, last>>

\* deleteMany selects the committed rows; it waits while another transaction holds one
ReplaceDelete ==
    \E p \in ProcIds :
        /\ procs[p].pc = "delete"
        /\ LET targets == Matching(grants, procs[p].kind, procs[p].key)
               tx == [procs[p] EXCEPT !.targets = targets]
           IN  IF targets \cap LockedByOthers(p) /= {}
               THEN /\ procs' = [procs EXCEPT ![p] = [tx EXCEPT !.pc = "deleteWait"]]
                    /\ UNCHANGED grants
               ELSE \E r \in {DeleteManyInTransaction(tx, grants)} :
                      /\ procs' = [procs EXCEPT ![p] = r.tx]
                      /\ grants' = r.grants
        /\ UNCHANGED <<loginEvents, users, accounts, tokens, flow, last>>

\* the waiting deleteMany goes on once the rows are free: rows a committed transaction
\* deleted are passed over, rows committed since it began are not seen
ReplaceDeleteResume ==
    \E p \in ProcIds :
        /\ procs[p].pc = "deleteWait"
        /\ procs[p].targets \cap LockedByOthers(p) = {}
        /\ \E r \in {DeleteManyInTransaction(procs[p], grants)} :
              /\ procs' = [procs EXCEPT ![p] = r.tx]
              /\ grants' = r.grants
        /\ UNCHANGED <<loginEvents, users, accounts, tokens, flow, last>>

\* createMany; it waits for a transaction that wrote or deleted a row of the same pair,
\* and a violated index or foreign key rolls the transaction back
ReplaceCreate ==
    \E p \in ProcIds :
        /\ procs[p].pc = "create"
        /\ ~\E r \in SeqRange(procs[p].rows), o \in InsertedByOthers(p) \cup LockedByOthers(p) :
              SamePair(r, o)
        /\ procs' = [procs EXCEPT ![p] =
                IF CreateManyFails(users, grants \ procs[p].deleted, procs[p].rows)
                THEN [@ EXCEPT !.pc = "done", !.status = 500, !.deleted = {}]
                ELSE [@ EXCEPT !.pc = "commit", !.inserted = SeqRange(procs[p].rows)]]
        /\ UNCHANGED <<loginEvents, users, accounts, grants, tokens, flow, last>>

ReplaceCommit ==
    \E p \in ProcIds :
        /\ procs[p].pc = "commit"
        /\ grants' = (grants \ procs[p].deleted) \cup procs[p].inserted
        /\ procs' = [procs EXCEPT ![p] = [@ EXCEPT !.pc = "done", !.status = 200,
                                                   !.deleted = {}, !.inserted = {}]]
        /\ UNCHANGED <<loginEvents, users, accounts, tokens, flow, last>>

\* one findMany on the accesses table (user view, customer view, agreements)
GrantsRead ==
    \E p \in ProcIds, req \in ReadRequests :
        /\ procs[p].pc = "idle"
        /\ procs' = [procs EXCEPT ![p] =
                [Transaction(req.kind, req.key, <<>>) EXCEPT
                    !.pc = "read", !.observed = Matching(grants, req.kind, req.key)]]
        /\ UNCHANGED <<loginEvents, users, accounts, grants, tokens, flow, last>>

RequestReturn ==
    \E p \in ProcIds :
        /\ procs[p].pc \in {"done", "read"}
        /\ procs' = [procs EXCEPT ![p] = [pc |-> "idle"]]
        /\ UNCHANGED <<loginEvents, users, accounts, grants, tokens, flow, last>>

NextGrants ==
    ReplaceBegin \/ ReplaceDelete \/ ReplaceDeleteResume \/ ReplaceCreate \/ ReplaceCommit
        \/ GrantsRead \/ RequestReturn

SpecGrants == InitAdmin /\ [][NextGrants]_vars

(***************************************************************************)
(* Concurrent OAuth callbacks: each request runs callbacks.signIn one      *)
(* datastore call at a time, interleaved with the others.                  *)
(***************************************************************************)
InitConcurrent ==
    /\ users = [u \in UserIds |->
                  IF u = "u1" THEN AdminRow ELSE NewUser(<<"+", "2">>, "customer", "t0")]
    /\ accounts = <<>>
    /\ grants = {[userId |-> "u2", customerId |-> 10, role |-> "admin"]}
    /\ loginEvents = {}
    /\ tokens = [b \in {} |-> NULL]
    /\ flow = "idle"
    /\ procs = [p \in ProcIds |-> [pc |-> "idle"]]
    /\ last = NoLast

CallbackBegin ==
    \E p \in ProcIds, paid \in {"sub1", "sub2"}, phoneRaw \in {<<"1">>, <<"2">>},
       address \in Addresses :
        /\ procs[p].pc = "idle"
        /\ procs' = [procs EXCEPT ![p] =
                        SignInBegin("vipps", paid, phoneRaw, Undefined,
                                    [hasId |-> TRUE, email |-> Undefined], address, "none")]
        /\ UNCHANGED <<loginEvents, users, accounts, grants, tokens, flow, last>>

CallbackStep ==
    \E p \in ProcIds :
        /\ procs[p].pc \notin {"idle", "done"}
        /\ \E r \in {SignInStep([users |-> users, accounts |-> accounts], procs[p])} :
              /\ users' = r.db.users
              /\ accounts' = r.db.accounts
              /\ procs' = [procs EXCEPT ![p] = r.l]
        /\ UNCHANGED <<loginEvents, grants, tokens, flow, last>>

CallbackReturn ==
    \E p \in ProcIds :
        /\ procs[p].pc = "done"
        /\ procs' = [procs EXCEPT ![p] = [pc |-> "idle"]]
        /\ UNCHANGED <<loginEvents, users, accounts, grants, tokens, flow, last>>

NextConcurrent == CallbackBegin \/ CallbackStep \/ CallbackReturn

SpecConcurrent == InitConcurrent /\ [][NextConcurrent]_vars

(***************************************************************************)
(* Concurrent provisioning: POST /api/users one datastore call at a time,  *)
(* interleaved with other creations and with OAuth callbacks followed by   *)
(* events.signIn.                                                          *)
(***************************************************************************)
ProvisionUserIds == AdminUserIds \cup {"u4"}

\* POST /api/users up to its first datastore call
PostUsersBegin(toks, b, phone, role, relationships, now) ==
    LET normalizedRole == normalizeGlobalRole(role)
        normalizedPhone == normalizePhoneOfUsersRoute(phone)
        normalizedRelationships ==
            IF normalizedRole = "customer" THEN normalizeRelationships(relationships)
            ELSE <<>>
        l == [pc |-> "findUnique", status |-> 0, normalizedPhone |-> normalizedPhone,
              normalizedRole |-> normalizedRole,
              normalizedRelationships |-> normalizedRelationships, now |-> now,
              endedAt |-> "none"]
        deny(st) == [l EXCEPT !.pc = "done", !.status = st, !.endedAt = "validation"]
    IN  IF ~HasSession(toks, b) \/ toks[b].role /= "super_admin" THEN deny(403)
        ELSE IF normalizedRole = NULL THEN deny(400)
        ELSE IF normalizedPhone = NoPhone THEN deny(400)
        ELSE IF normalizedRole = "customer" /\ normalizedRelationships = <<>> THEN deny(400)
        ELSE l

\* prisma.user.create with the nested accesses, no unique index on users.phone
UserCreateNoUnique(db, id, l) ==
    [ok |-> TRUE,
     users |-> [x \in DOMAIN db.users \cup {id} |->
                   IF x = id THEN NewUser(l.normalizedPhone, l.normalizedRole, l.now)
                   ELSE db.users[x]],
     grants |-> db.grants \cup {[userId |-> id, customerId |-> r.customerId, role |-> r.role] :
                                   r \in SeqRange(l.normalizedRelationships)}]

\* prisma.user.create with the nested accesses: [ok, users, grants]
UserCreate(db, id, l) ==
    IF \/ FindUserByPhone(db.users, l.normalizedPhone).id /= NULL
       \/ \E r \in SeqRange(l.normalizedRelationships) : r.customerId \notin Customers
    THEN [ok |-> FALSE, users |-> db.users, grants |-> db.grants]
    ELSE [ok |-> TRUE,
          users |-> [x \in DOMAIN db.users \cup {id} |->
                        IF x = id THEN NewUser(l.normalizedPhone, l.normalizedRole, l.now)
                        ELSE db.users[x]],
          grants |-> db.grants
                       \cup {[userId |-> id, customerId |-> r.customerId, role |-> r.role] :
                                r \in SeqRange(l.normalizedRelationships)}]

\* one datastore call of POST /api/users; id is the identifier of a row it inserts
PostUsersStep(db, l, id) ==
    LET end(st) == [db |-> db,
                    l |-> [l EXCEPT !.pc = "done", !.status = st, !.endedAt = l.pc]]
    IN
    CASE l.pc = "findUnique" ->
            IF FindUserByPhone(db.users, l.normalizedPhone).id /= NULL THEN end(409)
            ELSE IF l.normalizedRelationships /= <<>>
            THEN [db |-> db, l |-> [l EXCEPT !.pc = "findMany"]]
            ELSE [db |-> db, l |-> [l EXCEPT !.pc = "userCreate"]]
      [] l.pc = "findMany" ->
            IF \E r \in SeqRange(l.normalizedRelationships) : r.customerId \notin Customers
            THEN end(400)
            ELSE [db |-> db, l |-> [l EXCEPT !.pc = "userCreate"]]
      [] l.pc = "userCreate" ->
            LET r == UserCreate(db, id, l) IN
            IF r.ok THEN [db |-> [users |-> r.users, grants |-> r.grants],
                          l |-> [l EXCEPT !.pc = "done", !.status = 201,
                                          !.endedAt = l.pc]]
            ELSE IF FindUserByPhone(db.users, l.normalizedPhone).id /= NULL THEN end(409)
            ELSE end(500)

PostUsersPcs == {"findUnique", "findMany", "userCreate"}

InitProvision ==
    /\ users = [u \in {"u1", "u2"} |-> IF u = "u1" THEN AdminRow ELSE CustomerRow]
    /\ accounts = <<AccountRow("u1", "vipps", "sub1")>>
    /\ grants = {[userId |-> "u2", customerId |-> 10, role |-> "admin"]}
    /\ loginEvents = {LoginEventRow("e1", "u1"), LoginEventRow("e2", "u2"),
                      LoginEventRow("e3", "u2")}
    /\ tokens = [b \in {"b1", "b2"} |->
                   IF b = "b1" THEN JwtSignIn("u1", AdminRow) ELSE JwtSignIn("u2", CustomerRow)]
    /\ flow = "idle"
    /\ procs = [p \in ProcIds |-> [pc |-> "idle"]]
    /\ last = NoLast

CreationBegin ==
    \E p \in ProcIds, b \in DOMAIN tokens,
       phone \in {<<"3">>, <<"+", " ", "3">>, <<"+", "2">>, <<"x">>},
       request \in {[role |-> "super_admin", relationships |-> <<>>],
                    [role |-> "customer",
                     relationships |-> <<[companyId |-> 10, role |-> "admin"]>>],
                    [role |-> "customer",
                     relationships |-> <<[companyId |-> 30, role |-> "user"]>>]},
       now \in Times :
        /\ procs[p].pc = "idle"
        /\ middleware(tokens, b, <<"api", "users">>) = <<"next">>
        /\ procs' = [procs EXCEPT ![p] =
                        PostUsersBegin(tokens, b, phone, request.role,
                                       request.relationships, now)]
        /\ UNCHANGED <<loginEvents, users, accounts, grants, tokens, flow, last>>

CreationStep ==
    \E p \in ProcIds :
        /\ procs[p].pc \in PostUsersPcs
        /\ ProvisionUserIds \ DOMAIN users /= {}
        /\ \E id \in {CHOOSE x \in ProvisionUserIds \ DOMAIN users : TRUE} :
           \E r \in {PostUsersStep([users |-> users, grants |-> grants], procs[p], id)} :
              /\ users' = r.db.users
              /\ grants' = r.db.grants
              /\ procs' = [procs EXCEPT ![p] = r.l]
        /\ UNCHANGED <<loginEvents, accounts, tokens, flow, last>>

ProvisionCallbackBegin ==
    \E p \in ProcIds, paid \in {"sub1", "sub3"}, phoneRaw \in {<<"1">>, <<"3">>} :
        /\ procs[p].pc = "idle"
        /\ procs' = [procs EXCEPT ![p] =
                        SignInBegin("vipps", paid, phoneRaw, Undefined,
                                    [hasId |-> TRUE, email |-> Undefined],
                                    CHOOSE a \in Addresses : ~a.isObject, "none")]
        /\ UNCHANGED <<loginEvents, users, accounts, grants, tokens, flow, last>>

ProvisionCallbackStep ==
    \E p \in ProcIds :
        /\ procs[p].pc \in DbCalls
        /\ \E r \in {SignInStep([users |-> users, accounts |-> accounts], procs[p])} :
              /\ users' = r.db.users
              /\ accounts' = r.db.accounts
              /\ procs' = [procs EXCEPT ![p] = r.l]
        /\ UNCHANGED <<loginEvents, grants, tokens, flow, last>>

\* after an allowed callback: the adapter's owner lookup and events.signIn
ProvisionCallbackEvent ==
    \E p \in ProcIds, now \in Times :
        /\ procs[p].pc = "done"
        /\ "result" \in DOMAIN procs[p]
        /\ \E owner \in {FindAccount(accounts, procs[p].provider,
                                      procs[p].providerAccountId)} :
           \E ev \in {IF procs[p].result = "allow" /\ owner /= NULL
                       THEN EventSignIn(users, procs[p].provider, owner, users[owner],
                                        procs[p].profile.phone_number,
                                        procs[p].profile.email, procs[p].profile.address,
                                        now)
                       ELSE [ok |-> FALSE, users |-> users]} :
              /\ users' = ev.users
              /\ procs' = [procs EXCEPT ![p] = [pc |-> "idle"]]
        /\ UNCHANGED <<loginEvents, accounts, grants, tokens, flow, last>>

CreationReturn ==
    \E p \in ProcIds :
        /\ procs[p].pc = "done"
        /\ "status" \in DOMAIN procs[p]
        /\ procs' = [procs EXCEPT ![p] = [pc |-> "idle"]]
        /\ UNCHANGED <<loginEvents, users, accounts, grants, tokens, flow, last>>

NextProvision ==
    CreationBegin \/ CreationStep \/ CreationReturn
        \/ ProvisionCallbackBegin \/ ProvisionCallbackStep \/ ProvisionCallbackEvent

SpecProvision == InitProvision /\ [][NextProvision]_vars

(***************************************************************************)
(* normalizePhone of lib/auth.ts on its own: every phone string of up to   *)
(* MaxPhoneLen characters, and the absent one, normalized once and again.  *)
(***************************************************************************)
MaxPhoneLen == 3
PhoneChars == {"+", " ", "1", "x"}
PhoneInputs == {NoPhone} \cup UNION {[1..n -> PhoneChars] : n \in 0..MaxPhoneLen}

InitPhone ==
    /\ users = [u \in {"u1"} |-> AdminRow]
    /\ accounts = <<>>
    /\ grants = {}
    /\ loginEvents = {}
    /\ tokens = [b \in {} |-> NULL]
    /\ flow = "idle"
    /\ procs = [p \in ProcIds |-> [pc |-> "idle"]]
    /\ last \in {[op |-> "input", input |-> p] : p \in PhoneInputs}

Normalize ==
    /\ last.op = "input"
    /\ last' = [op |-> "normalizePhone", input |-> last.input,
                once |-> normalizePhone(last.input),
                twice |-> normalizePhone(normalizePhone(last.input))]
    /\ UNCHANGED <<loginEvents, users, accounts, grants, tokens, flow, procs>>

NextPhone == Normalize

SpecPhone == InitPhone /\ [][NextPhone]_vars

(***************************************************************************)
(* Following the middleware's redirects.  A URL is its pathname followed   *)
(* by the URL its callbackUrl parameter holds, if any: the sequence        *)
(* <<p0, p1, p2>> is p0?callbackUrl=p1?callbackUrl=p2.                     *)
(***************************************************************************)
MaxCallbackDepth == 2
\* a callbackUrl that names another origin
ExternalPath == <<"//other.host">>
UrlPaths == {<<"login">>, <<"onboarding">>, <<"avtaler">>, <<"api", "users">>, ExternalPath}
Urls == UNION {[1..n -> UrlPaths] : n \in 1..(MaxCallbackDepth + 1)}

\* the Location of a redirect that sends a signed-out browser back to the page itself
RedirectToNoPublicLogin(toks, b, url) ==
    LET answer == middleware(toks, b, Head(url)) IN
    IF answer = <<"onboarding">> THEN <<<<"onboarding">>>>
    ELSE IF answer = <<"avtaler">>
    THEN IF Tail(url) /= <<>> THEN Tail(url) ELSE <<<<"avtaler">>>>
    ELSE IF answer = <<"login">> \/ (~HasSession(toks, b) /\ Head(url) = <<"login">>)
    THEN <<<<"login">>, Head(url)>>
    ELSE <<>>

\* the Location of the middleware's redirect for a URL, <<>> when it passes the request
RedirectTo(toks, b, url) ==
    LET answer == middleware(toks, b, Head(url)) IN
    IF answer = <<"onboarding">> THEN <<<<"onboarding">>>>
    ELSE IF answer = <<"avtaler">>
    THEN IF Tail(url) /= <<>> THEN Tail(url) ELSE <<<<"avtaler">>>>
    ELSE IF answer = <<"login">> THEN <<<<"login">>, Head(url)>>
    ELSE <<>>

\* the sessions a browser can hold: none, pending, complete
SessionStates ==
    {[b \in {} |-> NULL],
     [b \in {"b1"} |-> JwtSignIn("u1", FreshAdminRow)],
     [b \in {"b1"} |-> JwtSignIn("u1", AdminRow)]}

InitRedirect ==
    /\ users = [u \in {"u1"} |-> AdminRow]
    /\ accounts = <<>>
    /\ grants = {}
    /\ loginEvents = {}
    /\ tokens \in SessionStates
    /\ flow = "idle"
    /\ procs = [p \in ProcIds |-> [pc |-> "idle"]]
    /\ last \in {[op |-> "request", start |-> url, url |-> url, hops |-> 0,
                   arrived |-> FALSE] : url \in Urls}

\* the browser follows the redirect it was answered with
FollowRedirect ==
    /\ ~last.arrived
    /\ Head(last.url) /= ExternalPath
    /\ last.hops <= MaxCallbackDepth + 2
    /\ RedirectTo(tokens, "b1", last.url) /= <<>>
    /\ last' = [last EXCEPT !.url = RedirectTo(tokens, "b1", last.url), !.hops = @ + 1]
    /\ UNCHANGED <<loginEvents, users, accounts, grants, tokens, flow, procs>>

\* the middleware passes the request on, or the URL is another origin's
PassThrough ==
    /\ ~last.arrived
    /\ Head(last.url) = ExternalPath \/ RedirectTo(tokens, "b1", last.url) = <<>>
    /\ last' = [last EXCEPT !.arrived = TRUE]
    /\ UNCHANGED <<loginEvents, users, accounts, grants, tokens, flow, procs>>

NextRedirect == FollowRedirect \/ PassThrough

SpecRedirect == InitRedirect /\ [][NextRedirect]_vars

(***************************************************************************)
(* What the last request was about, read from its record.                  *)
(***************************************************************************)
IsSignIn == last.op = "signIn"

\* provider, providerAccountId and a normalized phone are all present
Correlated ==
    Truthy(last.provider) /\ Truthy(last.providerAccountId) /\ last.phoneNumber /= NoPhone

\* the users that held the asserted phone / the asserted email before the request
PhoneOwners == {u \in DOMAIN last.pre.users : last.pre.users[u].phone = last.phoneNumber}

EmailOwners ==
    {u \in DOMAIN last.pre.users :
        last.emailAddr /= Undefined /\ last.pre.users[u].email = last.emailAddr}

\* the owners of the presented (provider, providerAccountId) link before the request
LinkOwners ==
    {last.pre.accounts[i].userId : i \in
        {j \in 1..Len(last.pre.accounts) :
            /\ last.pre.accounts[j].provider = last.provider
            /\ last.pre.accounts[j].providerAccountId = last.providerAccountId}}

\* the callback itself wrote nothing
CallbackWroteNothing ==
    last.mid.users = last.pre.users /\ last.mid.accounts = last.pre.accounts

\* C1: a link owned by user A and an asserted phone of another user B give the
\* AccountNotLinked redirect, no new link, the same link owner and B's profile untouched.
C1_RejectLeavesOtherUserUntouched ==
    (IsSignIn /\ ~last.faulted /\ Correlated)
        => \A a \in LinkOwners, b \in PhoneOwners :
              a /= b => /\ last.result = "OAuthAccountNotLinked"
                        /\ last.mid.accounts = last.pre.accounts
                        /\ last.mid.users[b] = last.pre.users[b]

C3_FirstSignInLinksExactlyOnce ==
    (IsSignIn /\ ~last.faulted /\ Correlated /\ LinkOwners = {})
        => \A b \in PhoneOwners :
              /\ last.result = "allow"
              /\ last.mid.accounts =
                    Append(last.pre.accounts,
                           AccountRow(b, last.provider, last.providerAccountId))

\* C4: the phone-matched user already owns the presented link: the callback allows, adds
\* no link, changes the user's email only from null, and changes nothing of the user
\* besides email, phone and address.
C4_ReturningUserFrame ==
    (IsSignIn /\ Correlated)
        => \A b \in PhoneOwners :
              LinkOwners = {b}
              => /\ last.result = "allow"
                 /\ last.mid.accounts = last.pre.accounts
                 /\ DOMAIN last.mid.users = DOMAIN last.pre.users
                 /\ last.mid.users[b].email /= last.pre.users[b].email
                       => last.pre.users[b].email = NULL
                 /\ \A f \in {"role", "acceptedTerms", "acceptedTermsAt",
                               "acceptedTermsVersion", "lastLoginAt", "createdAt"} :
                       last.mid.users[b][f] = last.pre.users[b][f]

C4_Witness ==
    /\ IsSignIn /\ Correlated
    /\ \E b \in PhoneOwners :
          /\ LinkOwners = {b}
          /\ last.pre.users[b].email = NULL
          /\ last.mid.users[b].email = "b@x"
          /\ last.mid.users[b].address_street = "s1"
          /\ last.result = "allow"

\* C5: no user has the asserted phone but a user owns the asserted email: the callback
\* answers AccountNotLinked and nothing is written.
C5_EmailOwnedElsewhereIsNotLinked ==
    (IsSignIn /\ ~last.faulted /\ Correlated /\ PhoneOwners = {} /\ EmailOwners /= {})
        => /\ last.result = "OAuthAccountNotLinked"
           /\ CallbackWroteNothing
           /\ users = last.pre.users /\ accounts = last.pre.accounts
           /\ grants = last.pre.grants

C5_Witness ==
    /\ IsSignIn /\ ~last.faulted /\ Correlated /\ PhoneOwners = {} /\ EmailOwners /= {}
    /\ last.result = "OAuthAccountNotLinked"

\* C6: provider, providerAccountId or the normalized phone absent: the callback allows
\* without a single datastore call, whatever email or address came with it.
C6_MissingCorrelationAllowsUntouched ==
    (IsSignIn /\ ~Correlated)
        => /\ last.result = "allow"
           /\ last.dbCalls = 0
           /\ ~last.threw
           /\ CallbackWroteNothing

C6_Witness ==
    /\ IsSignIn /\ Truthy(last.provider) /\ Truthy(last.providerAccountId)
    /\ last.phoneNumber = NoPhone /\ last.emailAddr = "a@x"
    /\ EmailOwners /= {}
    /\ last.result = "allow" /\ last.dbCalls = 0

\* C8: a datastore call of the callback that raises, an outage or a violated unique
\* index, ends the callback with ALLOW: no redirect, no exception leaves it.
C8_ErrorsFailOpen == (IsSignIn /\ last.threw) => last.result = "allow"

C8_Witness ==
    /\ IsSignIn /\ last.threw /\ ~last.faulted
    /\ last.result = "allow"
    /\ PhoneOwners /= {} /\ EmailOwners /= {} /\ PhoneOwners /= EmailOwners

LinksUnique ==
    \A i, j \in 1..Len(accounts) :
        (/\ accounts[i].provider = accounts[j].provider
         /\ accounts[i].providerAccountId = accounts[j].providerAccountId) => i = j

\* a step keeps every accounts row it finds, owner included
LinksKept == \A i \in 1..Len(accounts) : Len(accounts') >= i /\ accounts'[i] = accounts[i]

\* C7: under any interleaving of sign-in callbacks a (provider, providerAccountId) pair
\* has at most one accounts row, and a row once written stays as it is: its owner is
\* never changed and no second row for the pair is written.
C7_LinkUniqueAndStable == []LinksUnique /\ [][LinksKept]_vars

\* two callbacks of different users raced for one unlinked pair: one created the row,
\* the other's create hit the unique index
C7_Witness ==
    \E p, q \in ProcIds :
        /\ p /= q
        /\ procs[p].pc = "done" /\ procs[p].result = "allow" /\ ~procs[p].threw
        /\ procs[q].pc = "done" /\ procs[q].result = "allow" /\ procs[q].threw
        /\ procs[q].linkedAccount = NULL /\ procs[p].linkedAccount = NULL
        /\ procs[p].providerAccountId = procs[q].providerAccountId
        /\ procs[p].userByPhone.id /= procs[q].userByPhone.id
        /\ Len(accounts) = 1

\* the terms-acceptance POST has stamped the user's row
Stamped(us, uid) ==
    /\ uid \in DOMAIN us
    /\ us[uid].acceptedTerms = TRUE
    /\ us[uid].acceptedTermsVersion = LATEST_TERMS_VERSION
    /\ us[uid].acceptedTermsAt /= NULL
    /\ us[uid].lastLoginAt /= NULL

\* C10: a session that needs onboarding stops needing it only when the terms-acceptance
\* POST has stamped its user's row (acceptance, latest version, timestamp, lastLoginAt);
\* no sign-in, session update or other route completes a pending session otherwise.
C10_OnlyAcceptanceCompletes ==
    \A b \in Browsers :
        (/\ last.op /= "none"
         /\ b \in last.pre.pending
         /\ HasSession(tokens, b) /\ ~needsOnboarding(tokens, b))
            => Stamped(users, tokens[b].uid)

\* the onboarding flow: the onboarding page, its route handler and the auth endpoints
InOnboardingFlow(pathname) ==
    \/ StartsWith(pathname, <<"onboarding">>)
    \/ StartsWith(pathname, <<"api", "onboarding">>)
    \/ StartsWith(pathname, <<"api", "auth">>)

\* C11: a request of a pending session for a page or route handler outside the
\* onboarding flow is answered with the redirect to /onboarding and never reaches it.
C11_PendingSeesOnlyOnboarding ==
    (/\ last.op = "navigate"
     /\ last.browser \in last.pre.pending
     /\ ~InOnboardingFlow(last.pathname)
     /\ last.handler /= "none")
        => last.answer = <<"onboarding">>

\* the request was one to an admin-only route handler
IsAdminRequest == last.op \in {"createUser", "patchUser", "patchCustomer", "deleteUser", "read"}

TablesAsBefore ==
    /\ users = last.pre.users /\ accounts = last.pre.accounts
    /\ grants = last.pre.grants /\ loginEvents = last.pre.loginEvents

\* C12: every admin-only route handler answers a session whose global role is not
\* super_admin with 403 and writes nothing.
C12_AdminRoutesForbidOthers ==
    (IsAdminRequest /\ tokens[last.browser].role /= "super_admin")
        => last.status = 403 /\ TablesAsBefore

C12_Witness ==
    /\ last.op = "patchUser" /\ tokens[last.browser].role = "customer"
    /\ last.userId = tokens[last.browser].uid
    /\ last.accesses /= <<>>
    /\ last.status = 403 /\ TablesAsBefore

\* the session's own grant role for customer c before the request, NULL without a grant
OwnGrantRole(c) ==
    LET rows == {r \in last.pre.grants :
                    r.userId = tokens[last.browser].uid /\ r.customerId = c}
    IN  IF rows = {} THEN NULL ELSE (CHOOSE r \in rows : TRUE).role

\* the request reads or replaces the grants of a customer
IsCustomerGrantsRequest ==
    \/ last.op = "patchCustomer"
    \/ last.op = "read" /\ last.route = "customerAccesses"

\* C13: a customer-role session is let through to read and replace the grants of
\* customer C exactly when it holds the admin grant for C; with a user grant or no grant
\* for C the answer is 403.
C13_CompanyAdminManagesOwnCompany ==
    (/\ IsCustomerGrantsRequest
     /\ tokens[last.browser].role = "customer"
     /\ last.customerId.isInteger /\ last.customerId.value > 0)
        => (last.status /= 403 <=> OwnGrantRole(last.customerId.value) = "admin")

\* C14: a super_admin session passes the company-access check for every customer id,
\* with or without rows in the accesses table and with or without a Customer row.
C14_SuperAdminPassesCompanyAccess ==
    (/\ IsCustomerGrantsRequest \/ (last.op = "read" /\ last.route = "customer")
     /\ tokens[last.browser].role = "super_admin"
     /\ last.customerId.isInteger /\ last.customerId.value > 0)
        => /\ last.status /= 403
           /\ (last.op = "read" /\ last.route = "customerAccesses")
                 => /\ last.status = 200
                    /\ derivePermissions(last.body,
                                         [id |-> tokens[last.browser].uid,
                                          role |-> tokens[last.browser].role]).canSave

C14_Witness ==
    /\ last.op = "read" /\ last.route = "customerAccesses"
    /\ tokens[last.browser].role = "super_admin"
    /\ last.customerId.value = 30
    /\ last.status = 200 /\ last.body = {}
    /\ grants /= {}
    /\ OwnGrantRole(10) = NULL

\* the well-formed entries of a user's replacement payload, as (customer, role) pairs
RequestedPairs(accesses) ==
    {[customerId |-> accesses[i].customerId, role |-> accesses[i].role] :
        i \in {j \in 1..Len(accesses) :
                  accesses[j].customerId > 0 /\ accesses[j].role \in {"admin", "user"}}}

\* C15: after a successful replacement of user u's grants with G, the user view shows
\* exactly the pairs of G and every customer's view shows u exactly as G says: prior
\* grants of u are gone, and nothing of u is left for G = [].
C15_ReplaceUserGrantsIsReplacement ==
    (last.op = "patchUser" /\ last.status = 200)
        => LET u == last.userId
               G == RequestedPairs(last.accesses)
               view == GetUser(tokens, last.browser, users, grants, u)
           IN  /\ view.status = 200 => view.body = G
               /\ view.status /= 200 => G = {}
               /\ \A raw \in {"10", "20", "30"} :
                     LET c == parseInt(raw).value
                         cview == GetCustomerAccesses(tokens, last.browser, grants, raw)
                     IN  /\ cview.status = 200
                         /\ {a \in cview.body : a.userId = u}
                               = {[userId |-> u, role |-> g.role] :
                                    g \in {x \in G : x.customerId = c}}

C15_Witness ==
    /\ last.op = "patchUser" /\ last.status = 200
    /\ last.userId = "u2"
    /\ RequestedPairs(last.accesses) = {[customerId |-> 10, role |-> "user"]}
    /\ [userId |-> "u2", customerId |-> 20, role |-> "user"] \in last.pre.grants
    /\ [userId |-> "u2", customerId |-> 10, role |-> "admin"] \in last.pre.grants

\* C18: whatever users are created and deleted and whatever grant sets are put in place
\* for users and customers, the accesses table has at most one row for a
\* (user, customer) pair.
C18_OneGrantPerPair ==
    \A r1, r2 \in grants :
        (r1.userId = r2.userId /\ r1.customerId = r2.customerId) => r1 = r2

C18_Witness ==
    /\ last.op = "patchCustomer" /\ last.status = 500
    /\ \E i, j \in 1..Len(last.accesses) :
          i /= j /\ last.accesses[i].userId = last.accesses[j].userId
    /\ grants = last.pre.grants
    /\ \E r \in grants : r.userId = "u3"

\* a step that changes the committed accesses table is the commit of one replacement
\* and shows its delete and its insert together
ReplacementShowsWhole ==
    grants' /= grants
        => \E p \in ProcIds :
              /\ procs[p].pc = "commit" /\ procs'[p].pc = "done"
              /\ SeqRange(procs[p].rows) \subseteq grants'
              /\ (procs[p].deleted \ SeqRange(procs[p].rows)) \cap grants' = {}

\* C16: what readers can see of the accesses table changes only when a replacement
\* commits, and then the delete and the insert show together: with a non-empty new set
\* the rows of the replaced user or customer go from the old set to one that holds the
\* complete new set, never through the empty set in between.
C16_ReadersSeeOldOrNew == [][ReplacementShowsWhole]_vars

\* a reader got the complete old set while a replacement with a non-empty new set stood
\* between its delete and its insert
C16_Witness ==
    \E p, q \in ProcIds :
        /\ procs[p].pc = "create" /\ procs[p].deleted /= {}
        /\ procs[q].pc = "read" /\ procs[q].kind = procs[p].kind
        /\ procs[q].observed = procs[p].deleted
        /\ Cardinality(procs[q].observed) = 2

\* C17: when the replacements of one user's (or one customer's) grants have ended, the
\* rows of that user (customer) are exactly the set one of the successful ones asked
\* for, never rows of two of them together.
C17_LastWriteWins ==
    \A p, q \in ProcIds :
        (/\ p /= q
         /\ procs[p].pc = "done" /\ procs[p].status = 200
         /\ procs[q].pc = "done" /\ procs[q].status = 200
         /\ procs[p].kind = procs[q].kind /\ procs[p].key = procs[q].key
         /\ \A x \in ProcIds \ {p, q} : ~InFlight(x))
            => Matching(grants, procs[p].kind, procs[p].key)
                  \in {SeqRange(procs[p].rows), SeqRange(procs[q].rows)}

(***************************************************************************)
(* C19.  Creations of users and sign-ins, interleaved one datastore call   *)
(* at a time.                                                              *)
(***************************************************************************)
\* the phone in the form POST /api/users stores
CanonicalPhone(phone) == normalizePhoneOfUsersRoute(phone)

PhonesUnique ==
    \A u1 \in DOMAIN users, u2 \in DOMAIN users :
        CanonicalPhone(users[u1].phone) = CanonicalPhone(users[u2].phone) => u1 = u2

\* a datastore call of one creation request
CreationCall(p) ==
    /\ procs[p].pc \in PostUsersPcs
    /\ procs'[p] /= procs[p]

CreationOutcome ==
    \A p \in ProcIds :
        CreationCall(p) =>
            LET taken == FindUserByPhone(users, procs[p].normalizedPhone).id /= NULL IN
            /\ (taken /\ procs[p].pc \in {"findUnique", "userCreate"})
                   => procs'[p].pc = "done" /\ procs'[p].status = 409
            /\ (procs'[p].pc = "done" /\ procs'[p].status /= 201)
                   => users' = users /\ grants' = grants
            /\ (procs'[p].pc = "done" /\ procs'[p].status = 201)
                   => /\ ~taken
                      /\ Cardinality(DOMAIN users') = Cardinality(DOMAIN users) + 1

EmailsUnique ==
    \A a \in DOMAIN users, b \in DOMAIN users :
        (users[a].email /= NULL /\ users[a].email = users[b].email) => a = b

\* the asserted phone is user b's, who has no email, and another user owns the
\* asserted email
EmailOfAnother(a, b) ==
    /\ IsSignIn /\ Correlated
    /\ a /= b
    /\ b \in PhoneOwners /\ last.pre.users[b].email = NULL
    /\ a \in EmailOwners

\* C20: after any sequence of sign-ins (callback profile sync and events.signIn) a
\* non-null email is held by at most one User; a sign-in whose phone is user B's
\* (no email) and whose email is already user A's leaves the email with A alone
C20_EmailOwnedByOneUser ==
    /\ EmailsUnique
    /\ IsSignIn =>
          \A a \in DOMAIN last.pre.users, b \in DOMAIN last.pre.users :
              EmailOfAnother(a, b)
                  => /\ users[a].email = last.emailAddr
                     /\ users[b].email /= last.emailAddr
                     /\ last.mid.users[b].email /= last.emailAddr

\* the callback's update of B met the unique index on users.email
C20_Witness ==
    /\ IsSignIn
    /\ \E a \in DOMAIN last.pre.users, b \in DOMAIN last.pre.users :
        /\ EmailOfAnother(a, b)
        /\ ~last.faulted /\ last.threw
        /\ last.result = "allow"
        /\ users[b].email = NULL

(***************************************************************************)
(* C21.  Grants and the global role.                                       *)
(***************************************************************************)
\* C21: after any sequence of user creations and grant replacements no User whose
\* global role is super_admin has an AccessGrant row
C21_NoGrantForSuperAdmin ==
    \A r \in grants : r.userId \in DOMAIN users => users[r.userId].role /= "super_admin"

(***************************************************************************)
(* C22.  The timestamp events.signIn writes.                               *)
(***************************************************************************)
\* the user the adapter signs in: the owner of the presented link after the callback
SignedIn == FindAccount(accounts, last.provider, last.providerAccountId)

\* the sign-in went through the provider and ended with a session
IssuedByProvider == IsSignIn /\ last.issued /\ last.provider = "vipps"

C23_NormalizePhoneIdempotent ==
    last.op = "normalizePhone" => last.twice = last.once

\* a digits-only input got its "+" and a second normalization left it alone
C23_Witness ==
    /\ last.op = "normalizePhone"
    /\ last.input = <<" ", "1", "1">>
    /\ last.once = <<"+", "1", "1">>
    /\ last.twice = last.once

\* C24: for every raw phone the normalization returns absent or "+" followed by one or
\* more digits; an input that cannot be reduced to that form is treated as absent
C24_NormalizedIsPlusDigits ==
    last.op = "normalizePhone"
        => \/ last.once = NoPhone
           \/ Head(last.once) = "+" /\ AllDigits(Tail(last.once))

(***************************************************************************)
(* C25.  Deleting a user.                                                  *)
(***************************************************************************)
\* the users that rows of the three owned tables refer to
ReferencedUsers ==
    {r.userId : r \in grants} \cup {e.userId : e \in loginEvents}
        \cup {accounts[i].userId : i \in 1..Len(accounts)}

\* the rows of the owned tables, in a snapshot or now, that belong to others than u
RowsOfOthers(tables, u) ==
    [users |-> [x \in DOMAIN tables.users \ {u} |-> tables.users[x]],
     accounts |-> SelectSeq(tables.accounts, LAMBDA a : a.userId /= u),
     grants |-> {r \in tables.grants : r.userId /= u},
     loginEvents |-> {e \in tables.loginEvents : e.userId /= u}]

GrantedCustomers(b) == {r.customerId : r \in {g \in grants : g.userId = tokens[b].uid}}

IsCustomerAgreementsRequest ==
    last.op = "agreements" /\ tokens[last.browser].role = "customer"

\* C26: for a customer-role session the agreements view asks the upstream about, and
\* returns rentals of, only the customers the session's user holds an AccessGrant for
\* in the datastore at the time of the request; with no grant the lists are empty and
\* the upstream is not called, and a grant a replacement removed is not used again
C26_AgreementsOnlyForGrantedCustomers ==
    IsCustomerAgreementsRequest =>
        /\ last.queried \subseteq GrantedCustomers(last.browser)
        /\ \A a \in last.body.active \cup last.body.historical :
              a.customerId \in GrantedCustomers(last.browser)
        /\ GrantedCustomers(last.browser) = {}
              => /\ last.queried = {}
                 /\ last.status \in {200, 500}
                 /\ last.body = [active |-> {}, historical |-> {}]
        /\ last.status = 200 => last.queried = GrantedCustomers(last.browser)

\* the customer began with grants for 10 and 20; a replacement removed the one for 20
\* and the next agreements request asked about 10 alone
C26_Witness ==
    /\ IsCustomerAgreementsRequest
    /\ tokens[last.browser].uid = "u2"
    /\ GrantedCustomers(last.browser) = {10}
    /\ last.status = 200
    /\ last.queried = {10}
    /\ last.body.active /= {}

(***************************************************************************)
(* C27.  What a client can change with a session update.                   *)
(***************************************************************************)
\* C27: a session update (callbacks.jwt with trigger "update") never lets the client
\* choose the session's global role or user id: whatever the payload, the token's role
\* afterwards is its role before or the user's role in the datastore, and token.uid is
\* unchanged
C27_UpdateKeepsRoleAndUid ==
    last.op = "sessionUpdate" =>
        LET tok == tokens[last.browser] IN
        /\ tok.uid = last.token.uid
        /\ \/ tok.role = last.token.role
           \/ tok.uid \in DOMAIN users /\ tok.role = users[tok.uid].role

(***************************************************************************)
(* C28.  Onboarding completes and stays completed.                         *)
(***************************************************************************)
\* the session update the onboarding page sends, for a user whose row the POST stamped
SubmittedUpdate(b) ==
    /\ last'.op = "sessionUpdate" /\ last'.browser = b /\ last'.payload = SubmitPayload
    /\ Stamped(users, tokens[b].uid)

OnboardingStays ==
    \A b \in DOMAIN tokens :
        /\ SubmittedUpdate(b) => ~needsOnboarding(tokens', b)
        /\ (/\ Stamped(users, tokens[b].uid)
            /\ ~needsOnboarding(tokens, b)
            /\ b \in DOMAIN tokens' /\ tokens'[b].uid = tokens[b].uid)
               => /\ ~needsOnboarding(tokens', b)
                  /\ Stamped(users', tokens[b].uid)

C29_RedirectsTerminate ==
    last.op = "request" =>
        /\ last.hops <= Len(last.start)
        /\ ~last.arrived =>
              \/ Head(last.url) = ExternalPath
              \/ RedirectTo(tokens, "b1", last.url) = <<>>
              \/ last.hops < Len(last.start)

\* a complete session asked for /login?callbackUrl=/login?callbackUrl=/api/users and
\* arrived there after two redirects
C29_Witness ==
    /\ last.op = "request"
    /\ HasSession(tokens, "b1") /\ ~needsOnboarding(tokens, "b1")
    /\ last.start = <<<<"login">>, <<"login">>, <<"api", "users">>>>
    /\ last.hops = 2
    /\ last.arrived
    /\ last.url = <<<<"api", "users">>>>

(***************************************************************************)
(* C30.  A replacement that fails.                                         *)
(***************************************************************************)
IsReplacement == last.op \in {"patchUser", "patchCustomer"}

\* the rows the request asked to insert
RequestedRows ==
    IF last.op = "patchUser" THEN NormalizeUserAccesses(last.accesses, last.userId)
    ELSE NormalizeCustomerAccesses(last.accesses, last.customerId.value)

\* the request reached the transaction
ReachedTransaction ==
    /\ IsReplacement
    /\ ~NotSuperAdmin(tokens, last.browser)
    /\ last.op = "patchUser" => last.userId /= ""
    /\ last.op = "patchCustomer" => last.customerId.isInteger /\ last.customerId.value > 0

\* the rows repeat a (user, customer) pair or name a user or customer that does not exist
RowsCannotBeInserted ==
    \/ \E i, j \in 1..Len(RequestedRows) :
          /\ i /= j
          /\ RequestedRows[i].userId = RequestedRows[j].userId
          /\ RequestedRows[i].customerId = RequestedRows[j].customerId
    \/ \E i \in 1..Len(RequestedRows) :
          \/ RequestedRows[i].userId \notin DOMAIN last.pre.users
          \/ RequestedRows[i].customerId \notin Customers

\* C30: a grant replacement whose rows repeat a (user, customer) pair or reference a
\* user or customer that does not exist answers with an error, and the AccessGrant
\* table is exactly as before the request: the delete of the prior grants is rolled back
C30_FailedReplacementRollsBack ==
    /\ (ReachedTransaction /\ RowsCannotBeInserted) => last.status = 500
    /\ (IsReplacement /\ last.status /= 200) => TablesAsBefore

\* the customer's two grants survived a replacement that named one customer twice
C30_Witness ==
    /\ ReachedTransaction /\ RowsCannotBeInserted
    /\ last.op = "patchUser" /\ last.userId = "u2"
    /\ last.status = 500
    /\ Cardinality({r \in last.pre.grants : r.userId = "u2"}) = 2
    /\ grants = last.pre.grants

====
